---- MODULE Spec2Model ----
(***************************************************************************)
(* A model of the darkstore / secrets library: a password protected,       *)
(* disk resident secret store with key rotation.                           *)
(*                                                                         *)
(* The disk is the key directory (and its two siblings used by Passwd),    *)
(* the data files and the flock(2) locks, which are held on inodes, not on *)
(* names.  Every process holding the store open has the Store struct's     *)
(* fields in memory; its goroutines (API callers, sweeps, the watcher) are *)
(* threads that take one step at a time.                                   *)
(*                                                                         *)
(* Cryptography is symbolic: a data key is an identifier, a primary key is *)
(* the pair (password, salt), a sealed frame or a wrapped key opens under  *)
(* exactly the key that sealed it.                                         *)
(***************************************************************************)
EXTENDS Integers, Sequences, FiniteSets, TLC

(***************************************************************************)
(* Program constants.                                                      *)
(***************************************************************************)
IdxMod == 256                 \* currentKeyIndex is a uint8
NonceSize == 12               \* gcm.NonceSize()
TagSize == 16                 \* overhead of gcm.Seal
KeySize == 32                 \* make([]byte, 32) in newKey
MaxCalls == 10                \* updateFiles: "only go 10 levels deep"
algorithmAES256GCM == 0

(***************************************************************************)
(* Bounds of the model.                                                    *)
(***************************************************************************)
MaxOps == 2                   \* data API calls a thread starts in the concurrent specifications
MaxRot == 1                   \* Rotate calls a thread starts
MaxPathLen == 7               \* characters of a caller-supplied path
MaxPw == 1                    \* Passwd calls a thread starts
MaxCrash == 1                 \* times a process is killed
MaxFail == 1                  \* failed re-encryptions of a sweep goroutine

VARIABLES
  dirs,      \* the key directory and its siblings .newpw and .oldpw
  files,     \* data files: path -> [ino, c]
  locks,     \* flock locks held: [t, ino, mode]
  mem,       \* per process: the Store struct
  th,        \* per thread: program counter and locals
  res,       \* per thread: what its last finished call returned
  saved,     \* per path: what the last successful Save / Delete left (history)
  pending,   \* per process: an fsnotify Write event on currentkey is queued
  budget,    \* per thread: calls it may still start
  hist,      \* history of the run that the properties read
  call       \* the data API call under path validation, and the tree it acts on

vars == <<dirs, files, locks, mem, th, res, saved, pending, budget, hist, call>>

(***************************************************************************)
(* Processes and their threads.                                            *)
(***************************************************************************)
Procs == {"A", "B"}
ApiThreads == {"A1", "A2", "B1"}
\* Every go s.updateFiles(0) starts a goroutine of its own; the model has
\* room for two of them in a process at a time.
SweepsOf(P) == IF P = "A" THEN {"As", "As2"} ELSE {"Bs", "Bs2"}
SweepThreads == SweepsOf("A") \cup SweepsOf("B")
WatchThreads == {"Aw", "Bw"}
WatchOf(P) == IF P = "A" THEN "Aw" ELSE "Bw"
Threads == ApiThreads \cup SweepThreads \cup WatchThreads
ProcOf(t) == IF t \in {"A1", "A2", "As", "As2", "Aw"} THEN "A" ELSE "B"

Paths == {"p1", "p2"}
KeyLock == ".keylock"
Data == {<<>>, <<1>>, <<2>>}

(***************************************************************************)
(* Partial functions.                                                      *)
(***************************************************************************)
Put(f, k, v) == [x \in (DOMAIN f) \cup {k} |-> IF x = k THEN v ELSE f[x]]
Drop(f, k) == [x \in (DOMAIN f) \ {k} |-> f[x]]
NoKeys == [x \in {} |-> 0]

(***************************************************************************)
(* File contents.                                                          *)
(***************************************************************************)
\* A data file: len bytes, first byte idx, ciphertext of pt sealed under key.
EmptyC == [len |-> 0, idx |-> 0, key |-> 0, pt |-> <<>>]
Frame(i, k, d) == [len |-> 1 + NonceSize + Len(d) + TagSize, idx |-> i, key |-> k, pt |-> d]

\* Primary keys.  A salt is an identifier: 0 is no salt file, a positive
\* number a salt of 32 bytes as generateSalt draws them, ShortSalt a salt
\* file of fewer bytes (one that os.WriteFile has truncated and not written).
\* ZeroPK is the 32 zero bytes that Wipe leaves; NoPK stands for no key at
\* all: bytes that open under no primary key.
ShortSalt == -1
ZeroPK == [pw |-> "", salt |-> 0]
NoPK == [pw |-> "none", salt |-> 0]

\* deriveKeyFromPassword: a salt of less than 32 bytes is an error.
deriveKeyFromPassword(pw, salt) ==
  IF salt < 1 THEN [ok |-> FALSE, key |-> ZeroPK]
  ELSE [ok |-> TRUE, key |-> [pw |-> pw, salt |-> salt]]

\* A key file: algorithm byte, nonce, raw key sealed under primary key pk.
EmptyK == [len |-> 0, alg |-> 0, pk |-> ZeroPK, raw |-> 0]
encryptKey(raw, pk) ==
  [len |-> 1 + NonceSize + KeySize + TagSize, alg |-> algorithmAES256GCM, pk |-> pk, raw |-> raw]
\* zeroOldKeys: zeroes over the whole file; they are the seal of no key.
Zeroed(kf) == [kf EXCEPT !.alg = 0, !.pk = NoPK, !.raw = 0]

\* currentkey: absent, empty (truncated by os.WriteFile) or one byte.
NoCur == [exists |-> FALSE, bytes |-> <<>>]
TruncatedCur == [exists |-> TRUE, bytes |-> <<>>]
CurFile(c) == [exists |-> TRUE, bytes |-> <<c>>]

\* A key directory: primarysalt (0: no file), currentkey, the key<N> files,
\* the inode of .keylock (0: no file), whether .tmp exists, and whether it
\* holds a subdirectory with a copy of a key directory (sub).
NoDir ==
  [exists |-> FALSE, salt |-> 0, cur |-> NoCur, keys |-> NoKeys, lock |-> 0, tmp |-> FALSE,
   sub |-> FALSE]
DirNames == {"keys", "newpw", "oldpw"}

(***************************************************************************)
(* The Store of a process.  made: NewStore has returned it to the client;  *)
(* stop: s.stopChan is closed; dir, keyDir, saltFile, curKeyIdxFile: the   *)
(* field holds its path (Close sets it to "").  s.lockFile is never        *)
(* cleared.                                                                *)
(***************************************************************************)
\* No Store: the client holds no handle (NewStore has returned none yet, or
\* the process was killed), or NewStore has not yet filled in the one it
\* is building.
ClosedMem ==
  [made |-> FALSE, stop |-> FALSE, dir |-> FALSE, keyDir |-> FALSE, saltFile |-> FALSE,
   curKeyIdxFile |-> FALSE, pk |-> ZeroPK, key |-> 0, idx |-> 0]

\* Every path field of the Store is "".
Cleared(m) == ~m.dir /\ ~m.keyDir /\ ~m.saltFile /\ ~m.curKeyIdxFile

\* The client calls Save, Load, Delete and Passwd on a handle that NewStore
\* returned and whose s.dir is set.
Handle(P) == mem[P].made /\ mem[P].dir

(***************************************************************************)
(* Thread locals and results.                                              *)
(***************************************************************************)
Idle ==
  [pc |-> "idle", op |-> "none", path |-> "none", d |-> <<>>, key |-> 0, fr |-> EmptyC,
   fd |-> 0, ex |-> FALSE, tgt |-> "none", nxt |-> "none", calls |-> 0, nki |-> 0,
   todoF |-> {}, todoK |-> {}, npk |-> ZeroPK, pw |-> "", post |-> FALSE, had |-> FALSE,
   busy |-> FALSE, out |-> FALSE, kf |-> EmptyK, todoW |-> {}, own |-> FALSE,
   st |-> ClosedMem, sw |-> "none"]

\* post: the call started after a Rotate had returned; had: the path held a
\* saved secret when the call started; busy: another holder had a lock on
\* .keylock when the call started; out: the key file path was joined to a
\* cleared s.keyDir and names a file outside the store; kf: the bytes that
\* readFile returned for a key file; todoW: the names that filepath.Walk
\* has read from the store directory and not yet visited; own, st: the
\* Store that the goroutine alone holds, see StoreOf; sw: the sweep that
\* the NewStore call has started.
NoRes ==
  [op |-> "none", path |-> "none", st |-> "none", val |-> <<>>, nil |-> FALSE,
   post |-> FALSE, had |-> FALSE]
Res(op, p, st) == [NoRes EXCEPT !.op = op, !.path = p, !.st = st]
\* Load finding no file: return nil, fmt.Errorf("secret not found").
NotFound(p) == [Res("Load", p, "notfound") EXCEPT !.nil = TRUE]
NoSaved == [has |-> FALSE, val |-> <<>>, over |-> FALSE]

(***************************************************************************)
(* Fresh names.  An inode number, a random key or a random salt is the     *)
(* least identifier that nothing in the state refers to: random values do  *)
(* not collide with live ones, and a value nothing refers to is as good as *)
(* new.                                                                    *)
(***************************************************************************)
Least(U) == CHOOSE i \in 1..(Cardinality(U) + 1) : i \notin U /\ \A j \in 1..(i - 1) : j \in U

UsedInos ==
  {files[p].ino : p \in DOMAIN files} \cup {dirs[d].lock : d \in DirNames}
    \cup {th[t].fd : t \in Threads} \cup {l.ino : l \in locks}
FreshIno == Least(UsedInos)

UsedKeys ==
  {files[p].c.key : p \in DOMAIN files}
    \cup UNION {{dirs[d].keys[i].raw : i \in DOMAIN dirs[d].keys} : d \in DirNames}
    \cup {mem[P].key : P \in Procs} \cup {th[t].st.key : t \in Threads}
    \cup {th[t].key : t \in Threads} \cup {th[t].fr.key : t \in Threads}
FreshKey == Least(UsedKeys)

UsedSalts ==
  {dirs[d].salt : d \in DirNames}
    \cup UNION {{dirs[d].keys[i].pk.salt : i \in DOMAIN dirs[d].keys} : d \in DirNames}
    \cup {mem[P].pk.salt : P \in Procs} \cup {th[t].npk.salt : t \in Threads}
    \cup {th[t].st.pk.salt : t \in Threads}
FreshSalt == Least(UsedSalts)

(***************************************************************************)
(* flock(2) on inodes.                                                     *)
(***************************************************************************)
HeldByOther(t, ino, modes) == \E l \in locks : l.t # t /\ l.ino = ino /\ l.mode \in modes
Unlocked(t) == {l \in locks : l.t # t}

\* The file a lock target names.
Exists(tgt) ==
  IF tgt = KeyLock THEN dirs["keys"].exists /\ dirs["keys"].lock # 0 ELSE tgt \in DOMAIN files
InoOf(tgt) == IF tgt = KeyLock THEN dirs["keys"].lock ELSE files[tgt].ino

\* os.MkdirAll(filepath.Dir(path)) and os.OpenFile(path, O_CREATE|O_RDWR).
CreatedDirs(tgt) ==
  IF tgt = KeyLock /\ ~Exists(tgt)
    THEN [dirs EXCEPT !["keys"].exists = TRUE, !["keys"].lock = FreshIno]
    ELSE dirs
CreatedFiles(tgt) ==
  IF tgt # KeyLock /\ ~Exists(tgt) THEN Put(files, tgt, [ino |-> FreshIno, c |-> EmptyC]) ELSE files
CreatedIno(tgt) == IF Exists(tgt) THEN InoOf(tgt) ELSE FreshIno

(***************************************************************************)
(* The receiver s of a method.  NewStore makes a Store of its own          *)
(* (&Store{...}) and fills it in; the client gets it when NewStore         *)
(* returns it, and until then only NewStore and the sweep that             *)
(* checkForOldKeys started on it have the pointer.  own: s is th[t].st,    *)
(* the Store that NewStore is building, or one that no client holds        *)
(* (NewStore returned an error after the sweep was started, or the client  *)
(* has taken a new handle).  A sweep that a NewStore call has started      *)
(* works on the Store of that call (a call is at startRotateWatch from the *)
(* step that starts its sweep to its return).  Else s is the handle that   *)
(* the client holds, mem[P].                                               *)
(***************************************************************************)
StartedBy(t) == {u \in Threads : th[u].pc = "startRotateWatch" /\ th[u].sw = t}
StoreOf(t) ==
  IF th[t].own THEN th[t].st
  ELSE IF StartedBy(t) # {} THEN th[CHOOSE u \in StartedBy(t) : TRUE].st
  ELSE mem[ProcOf(t)]

(***************************************************************************)
(* Budgets: the calls a thread may still start.                            *)
(***************************************************************************)
Limit(ops, rot, pw, crash) == [lim |-> TRUE, ops |-> ops, rot |-> rot, pw |-> pw, crash |-> crash]
NoBudget == Limit(0, 0, 0, 0)
Free == [NoBudget EXCEPT !.lim = FALSE]
Can(t, f) == ~budget[t].lim \/ budget[t][f] > 0
Spend(t, f) == IF budget[t].lim THEN [budget EXCEPT ![t][f] = @ - 1] ELSE budget

(***************************************************************************)
(* Keys.                                                                   *)
(***************************************************************************)
KeyErr == [ok |-> FALSE, key |-> 0]

\* loadKeyFromPath with the authentication of the wrapped key left out: any
\* primary key opens a well-framed key file.
loadKeyFromPath_noAuth(pk, kf) ==
  IF kf.len < 1 THEN KeyErr
  ELSE IF kf.alg # algorithmAES256GCM THEN KeyErr
  ELSE IF kf.len < 1 + NonceSize THEN KeyErr
  ELSE [ok |-> TRUE, key |-> kf.raw]

\* loadKeyFromPath: read the key file, check its framing and algorithm byte,
\* open it under the primary key in memory.
loadKeyFromPath(pk, kf) ==
  IF kf.len < 1 THEN KeyErr
  ELSE IF kf.alg # algorithmAES256GCM THEN KeyErr
  ELSE IF kf.len < 1 + NonceSize THEN KeyErr
  ELSE IF kf.pk # pk THEN KeyErr
  ELSE [ok |-> TRUE, key |-> kf.raw]

\* readFile of key<index> in the key directory kd: the bytes of the file,
\* or the error of a missing file.
NoKeyFile == [ok |-> FALSE, kf |-> EmptyK]
readKeyFile(kd, index) ==
  IF ~kd.exists \/ index \notin DOMAIN kd.keys THEN NoKeyFile
  ELSE [ok |-> TRUE, kf |-> kd.keys[index]]

\* loadKey run with nothing else touching the handle or the disk: key<index>
\* of s.keyDir; once Close has cleared s.keyDir the path names no file of
\* the store.
loadKey(m, kd, index) ==
  IF ~m.keyDir \/ ~readKeyFile(kd, index).ok THEN KeyErr
  ELSE loadKeyFromPath(m.pk, readKeyFile(kd, index).kf)

\* writeFile holds the exclusive lock on key<index> from the creation of the
\* file to the end of the write; readFile waits for it.
KeyWriteLocked(index) ==
  \E u \in Threads : th[u].pc = "newKeyWrite" /\ th[u].nki = index /\ ~th[u].out

(***************************************************************************)
(* decryptData: the key is the one in memory when the frame's first byte   *)
(* is the current index, else the key file it names; gcm.Open returns nil  *)
(* for an empty plaintext, which is turned into an empty slice.  The       *)
(* comparison with s.currentKeyIndex, the read of s.currentKey and loadKey *)
(* are steps of their own: nothing orders them with Rotate or with the     *)
(* watcher's reload.                                                       *)
(***************************************************************************)
DecErr == [st |-> "err", val |-> <<>>, nil |-> TRUE]
\* gcm.Open without the check of the tag.
gcmOpen_noAuth(key, fr) ==
  IF fr.len < 1 + NonceSize + TagSize THEN DecErr
  ELSE [st |-> "ok", val |-> fr.pt, nil |-> (fr.pt = <<>>)]

gcmOpen(key, fr) ==
  IF fr.len < 1 + NonceSize + TagSize \/ fr.key # key THEN DecErr
  ELSE [st |-> "ok", val |-> fr.pt, nil |-> (fr.pt = <<>>)]

\* decryptData from the point where it has its key k (or the error of
\* loadKey), with the nil plaintext passed on.
decryptDataOpen_keepNil(k, fr) ==
  IF ~k.ok THEN DecErr
  ELSE IF fr.len < 1 + NonceSize THEN DecErr
  ELSE gcmOpen(k.key, fr)

\* decryptData from the point where it has its key k (or the error of
\* loadKey): the cipher, the length check, gcm.Open.
decryptDataOpen(k, fr) ==
  IF ~k.ok THEN DecErr
  ELSE IF fr.len < 1 + NonceSize THEN DecErr
  ELSE LET r == gcmOpen(k.key, fr)
       IN IF r.st = "ok" /\ r.nil THEN [r EXCEPT !.nil = FALSE] ELSE r

\* decryptData run with nothing else touching the handle or the disk.
decryptData(m, kd, fr) ==
  IF fr.len < 1 THEN DecErr
  ELSE decryptDataOpen(IF fr.idx = m.idx THEN [ok |-> TRUE, key |-> m.key]
                                          ELSE loadKey(m, kd, fr.idx), fr)

(***************************************************************************)
(* lock(path): Stat, then open (creating the file and its directory when   *)
(* Stat found none), then a blocking flock(LOCK_EX) on the open file.      *)
(***************************************************************************)
PathOrder == <<"p1", "p2">>
FirstPath(S) == PathOrder[CHOOSE i \in 1..Len(PathOrder) :
                   PathOrder[i] \in S /\ \A j \in 1..(i - 1) : PathOrder[j] \notin S]

\* The sweep thread after one file is done: the next file of the listing,
\* or the check that follows the loop.
NextFile(r) ==
  IF r.todoF = {}
    THEN [Idle EXCEPT !.pc = "updateFilesCheck", !.op = "Sweep", !.calls = r.calls,
                      !.own = r.own, !.st = r.st]
    ELSE [Idle EXCEPT !.pc = "lockStat", !.op = "Sweep", !.calls = r.calls,
                      !.own = r.own, !.st = r.st,
                      !.path = FirstPath(r.todoF), !.tgt = FirstPath(r.todoF),
                      !.nxt = "reencryptFileRead", !.todoF = r.todoF \ {FirstPath(r.todoF)}]

\* What the caller does when lock() returns an error: reencryptFile returns
\* and updateFiles' loop takes the next file; every other caller returns.
AfterLockFail(t) ==
  IF th[t].op = "Sweep" /\ th[t].nxt = "reencryptFileRead"
    THEN NextFile(th[t])
    ELSE Idle
ResAfterLockFail(t) ==
  IF th[t].op \in {"Save", "Delete", "Rotate"}
    THEN [res EXCEPT ![t] = Res(th[t].op, th[t].path, "err")]
    ELSE res

lockStat(t) ==
  /\ th[t].pc = "lockStat"
  /\ th' = [th EXCEPT ![t].ex = Exists(th[t].tgt), ![t].pc = "lockOpen"]
  /\ UNCHANGED <<dirs, files, locks, mem, res, saved, pending, budget, hist, call>>

lockOpen(t) ==
  /\ th[t].pc = "lockOpen"
  /\ LET tgt == th[t].tgt IN
     IF ~th[t].ex
       THEN /\ dirs' = CreatedDirs(tgt)
            /\ files' = CreatedFiles(tgt)
            /\ th' = [th EXCEPT ![t].fd = CreatedIno(tgt), ![t].pc = "flock"]
            /\ res' = res
       ELSE IF Exists(tgt)
         THEN /\ th' = [th EXCEPT ![t].fd = InoOf(tgt), ![t].pc = "flock"]
              /\ UNCHANGED <<dirs, files, res>>
         ELSE /\ th' = [th EXCEPT ![t] = AfterLockFail(t)]
              /\ res' = ResAfterLockFail(t)
              /\ UNCHANGED <<dirs, files>>
  /\ UNCHANGED <<locks, mem, saved, pending, budget, hist, call>>

flock(t) ==
  /\ th[t].pc = "flock"
  /\ ~HeldByOther(t, th[t].fd, {"EX", "SH"})
  /\ locks' = locks \cup {[t |-> t, ino |-> th[t].fd, mode |-> "EX"]}
  /\ th' = [th EXCEPT ![t].pc = th[t].nxt]
  /\ UNCHANGED <<dirs, files, mem, res, saved, pending, budget, hist, call>>

\* rLock(path): the file is opened read-only by the caller (it must exist),
\* then a blocking flock(LOCK_SH).
rLockFlock(t) ==
  /\ th[t].pc = "rflock"
  /\ ~HeldByOther(t, th[t].fd, {"EX"})
  /\ locks' = locks \cup {[t |-> t, ino |-> th[t].fd, mode |-> "SH"]}
  /\ th' = [th EXCEPT ![t].pc = th[t].nxt]
  /\ UNCHANGED <<dirs, files, mem, res, saved, pending, budget, hist, call>>

(***************************************************************************)
(* encryptData reads s.currentKey (aes.NewCipher) and later                *)
(* s.currentKeyIndex (result[0]): two reads of the Store struct.           *)
(***************************************************************************)
encryptDataKey(t) ==
  /\ th[t].pc = "encKey"
  /\ th' = [th EXCEPT ![t].key = StoreOf(t).key, ![t].pc = "encIdx"]
  /\ UNCHANGED <<dirs, files, locks, mem, res, saved, pending, budget, hist, call>>

encryptData(m, key, d) == Frame(m.idx, key, d)

encryptDataIdx(t) ==
  /\ th[t].pc = "encIdx"
  /\ th' = [th EXCEPT
       ![t].fr = encryptData(StoreOf(t), th[t].key, th[t].d),
       ![t].key = 0,
       ![t].pc = IF th[t].op = "Save" THEN "lockStat" ELSE "reencryptFileWrite",
       ![t].tgt = IF th[t].op = "Save" THEN th[t].path ELSE th[t].tgt,
       ![t].nxt = IF th[t].op = "Save" THEN "writeFileTrunc" ELSE th[t].nxt]
  /\ UNCHANGED <<dirs, files, locks, mem, res, saved, pending, budget, hist, call>>

(***************************************************************************)
(* Save: validate the path, encrypt, writeFile.  writeFile holds the       *)
(* exclusive lock while os.WriteFile opens the path with O_CREATE|O_TRUNC  *)
(* and then writes.                                                        *)
(***************************************************************************)
Save(t, p, d) ==
  /\ th[t].pc = "idle"
  /\ Handle(ProcOf(t))
  /\ Can(t, "ops")
  /\ budget' = Spend(t, "ops")
  /\ th' = [th EXCEPT ![t] = [Idle EXCEPT !.pc = "encKey", !.op = "Save", !.path = p, !.d = d]]
  /\ hist' = [hist EXCEPT !.vals[p] = @ \cup {d}, !.pre[p] = NoSaved]
  /\ UNCHANGED <<dirs, files, locks, mem, res, saved, pending, call>>

writeFileTrunc(t) ==
  /\ th[t].pc = "writeFileTrunc"
  /\ LET p == th[t].path IN
     /\ files' = IF p \in DOMAIN files
                   THEN [files EXCEPT ![p].c = EmptyC]
                   ELSE Put(files, p, [ino |-> FreshIno, c |-> EmptyC])
     /\ th' = [th EXCEPT ![t].fd = IF p \in DOMAIN files THEN files[p].ino ELSE FreshIno,
                         ![t].pc = "writeFileWrite"]
  /\ UNCHANGED <<dirs, locks, mem, res, saved, pending, budget, hist, call>>

\* The write lands in the inode os.WriteFile opened; if the path has been
\* unlinked or renamed over since, the bytes go to an inode no name reaches.
writeFileWrite(t) ==
  /\ th[t].pc = "writeFileWrite"
  /\ LET p == th[t].path IN
     /\ files' = IF p \in DOMAIN files /\ files[p].ino = th[t].fd
                   THEN [files EXCEPT ![p].c = th[t].fr]
                   ELSE files
     /\ saved' = [saved EXCEPT ![p] = [has |-> TRUE, val |-> th[t].d, over |-> saved[p].has]]
     /\ res' = [res EXCEPT ![t] = Res("Save", p, "ok")]
     /\ hist' = [hist EXCEPT !.pre[p] = NoSaved]
  /\ locks' = Unlocked(t)
  /\ th' = [th EXCEPT ![t] = Idle]
  /\ UNCHANGED <<dirs, mem, pending, budget, call>>

(***************************************************************************)
(* Load: validate the path, readFile (shared lock, os.ReadFile, unlock),   *)
(* decryptData.                                                            *)
(***************************************************************************)
Load(t, p) ==
  /\ th[t].pc = "idle"
  /\ Handle(ProcOf(t))
  /\ Can(t, "ops")
  /\ budget' = Spend(t, "ops")
  /\ IF p \in DOMAIN files
       THEN /\ th' = [th EXCEPT ![t] = [Idle EXCEPT !.pc = "rflock", !.op = "Load", !.path = p,
                                           !.fd = files[p].ino, !.nxt = "readFileRead",
                                           !.post = hist.rotated, !.had = saved[p].has]]
            /\ res' = res
       ELSE /\ th' = [th EXCEPT ![t] = Idle]
            /\ res' = [res EXCEPT ![t] = NotFound(p)]
  /\ UNCHANGED <<dirs, files, locks, mem, saved, pending, hist, call>>

readFileRead(t) ==
  /\ th[t].pc = "readFileRead"
  /\ LET p == th[t].path IN
     IF p \in DOMAIN files
       THEN /\ th' = [th EXCEPT ![t].fr = files[p].c, ![t].fd = 0, ![t].pc = "decryptData"]
            /\ res' = res
       ELSE /\ th' = [th EXCEPT ![t] = Idle]
            /\ res' = [res EXCEPT ![t] = NotFound(p)]
  /\ locks' = Unlocked(t)
  /\ UNCHANGED <<dirs, files, mem, saved, pending, budget, hist, call>>

\* decryptData has returned r to its caller.  Load returns it.  reencryptFile
\* goes on to os.Remove on an error, else to encryptData.
Decrypted(t, r) ==
  IF th[t].op = "Load"
    THEN /\ res' = [res EXCEPT ![t] = [op |-> "Load", path |-> th[t].path, st |-> r.st,
                                       val |-> r.val, nil |-> r.nil,
                                       post |-> th[t].post, had |-> th[t].had]]
         /\ th' = [th EXCEPT ![t] = Idle]
    ELSE /\ th' = [th EXCEPT ![t].d = IF r.st = "ok" THEN r.val ELSE <<>>,
                             ![t].kf = EmptyK, ![t].nki = 0,
                             ![t].pc = IF r.st = "ok" THEN "encKey" ELSE "reencryptFileRemove"]
         /\ res' = res

\* len(encryptedData) < 1, then keyIndex == s.currentKeyIndex.
decryptDataIndex(t) ==
  /\ th[t].pc = "decryptData"
  /\ IF th[t].fr.len < 1
       THEN Decrypted(t, DecErr)
       ELSE /\ th' = [th EXCEPT ![t].pc = IF th[t].fr.idx = StoreOf(t).idx
                                            THEN "decryptDataCurrent" ELSE "decryptDataLoadKey"]
            /\ res' = res
  /\ UNCHANGED <<dirs, files, locks, mem, saved, pending, budget, hist, call>>

\* key = s.currentKey, and the rest of decryptData.
decryptDataCurrent(t) ==
  /\ th[t].pc = "decryptDataCurrent"
  /\ Decrypted(t, decryptDataOpen([ok |-> TRUE, key |-> StoreOf(t).key], th[t].fr))
  /\ UNCHANGED <<dirs, files, locks, mem, saved, pending, budget, hist, call>>

\* What a call returns to when one of its steps fails: the deferred unlock
\* runs.  A NewStore that fails returns no handle, the Store it was
\* building is dropped, and a handle that the client got earlier is as it
\* was.
Failed(t) ==
  /\ locks' = Unlocked(t)
  /\ th' = [th EXCEPT ![t] = Idle]
  /\ res' = [res EXCEPT ![t] = Res(th[t].op, "none", "err")]

\* loadKey has returned k (a key or an error) to its caller: decryptData
\* goes on with it; loadCurrentKey goes on to set s.currentKey, or returns
\* the error to rotateWatch, which unlocks and ends, or to
\* openExistingStore, which returns it to NewStore.
LoadedKey(t, k) ==
  IF th[t].op = "Watch"
    THEN /\ th' = [th EXCEPT ![t].kf = EmptyK, ![t].nki = 0,
                             ![t].key = IF k.ok THEN k.key ELSE 0,
                             ![t].pc = IF k.ok THEN "loadCurrentKeySet" ELSE "rotateWatchUnlock",
                             ![t].nxt = IF k.ok THEN "idle" ELSE "stopped"]
         /\ UNCHANGED <<locks, res>>
    ELSE IF th[t].op = "NewStore"
      THEN IF k.ok
             THEN /\ th' = [th EXCEPT ![t].kf = EmptyK, ![t].nki = 0, ![t].key = k.key,
                                      ![t].pc = "loadCurrentKeySet"]
                  /\ UNCHANGED <<locks, res>>
             ELSE Failed(t)
    ELSE /\ Decrypted(t, decryptDataOpen(k, th[t].fr))
         /\ locks' = locks

\* key, err = s.loadKey(keyIndex): the key file path is joined to s.keyDir,
\* and readFile's rLock opens the file, which must exist ...
decryptDataLoadKey(t) ==
  /\ th[t].pc = "decryptDataLoadKey"
  /\ IF StoreOf(t).keyDir /\ readKeyFile(dirs["keys"], th[t].fr.idx).ok
       THEN /\ th' = [th EXCEPT ![t].nki = th[t].fr.idx, ![t].pc = "loadKeyRead"]
            /\ UNCHANGED <<locks, res>>
       ELSE LoadedKey(t, KeyErr)
  /\ UNCHANGED <<dirs, files, mem, saved, pending, budget, hist, call>>

\* ... readFile waits for the shared lock on the key file, os.ReadFile reads
\* the path, and the lock is released ...
loadKeyRead(t) ==
  /\ th[t].pc = "loadKeyRead"
  /\ ~KeyWriteLocked(th[t].nki)
  /\ LET f == readKeyFile(dirs["keys"], th[t].nki) IN
     IF f.ok
       THEN /\ th' = [th EXCEPT ![t].kf = f.kf, ![t].pc = "loadKeyUnwrap"]
            /\ UNCHANGED <<locks, res>>
       ELSE LoadedKey(t, KeyErr)
  /\ UNCHANGED <<dirs, files, mem, saved, pending, budget, hist, call>>

\* ... and loadKeyFromPath opens the bytes under s.primaryKey as it is now.
loadKeyUnwrap(t) ==
  /\ th[t].pc = "loadKeyUnwrap"
  /\ LoadedKey(t, loadKeyFromPath(StoreOf(t).pk, th[t].kf))
  /\ UNCHANGED <<dirs, files, mem, saved, pending, budget, hist, call>>

(***************************************************************************)
(* Delete: Stat (a missing file is success), exclusive lock, os.Remove.    *)
(***************************************************************************)
\* A missing file reported as an error.
Delete_missingFails(t, p) ==
  /\ th[t].pc = "idle"
  /\ Handle(ProcOf(t))
  /\ Can(t, "ops")
  /\ budget' = Spend(t, "ops")
  /\ IF p \in DOMAIN files
       THEN /\ th' = [th EXCEPT ![t] = [Idle EXCEPT !.pc = "lockStat", !.op = "Delete", !.path = p,
                                           !.tgt = p, !.nxt = "DeleteRemove"]]
            /\ res' = res
       ELSE /\ th' = [th EXCEPT ![t] = Idle]
            /\ res' = [res EXCEPT ![t] = Res("Delete", p, "err")]
  /\ hist' = [hist EXCEPT !.pre[p] = NoSaved]
  /\ UNCHANGED <<dirs, files, locks, mem, saved, pending, call>>

Delete(t, p) ==
  /\ th[t].pc = "idle"
  /\ Handle(ProcOf(t))
  /\ Can(t, "ops")
  /\ budget' = Spend(t, "ops")
  /\ IF p \in DOMAIN files
       THEN /\ th' = [th EXCEPT ![t] = [Idle EXCEPT !.pc = "lockStat", !.op = "Delete", !.path = p,
                                           !.tgt = p, !.nxt = "DeleteRemove"]]
            /\ res' = res
       ELSE /\ th' = [th EXCEPT ![t] = Idle]
            /\ res' = [res EXCEPT ![t] = Res("Delete", p, "ok")]
  /\ hist' = [hist EXCEPT !.pre[p] = NoSaved]
  /\ UNCHANGED <<dirs, files, locks, mem, saved, pending, call>>

\* os.RemoveAll of the directory that holds the file.
DeleteRemove_wholeDir(t) ==
  /\ th[t].pc = "DeleteRemove"
  /\ LET p == th[t].path IN
     /\ files' = [x \in {} |-> 0]
     /\ saved' = [saved EXCEPT ![p] = NoSaved]
     /\ res' = [res EXCEPT ![t] = Res("Delete", p, "ok")]
     /\ hist' = [hist EXCEPT !.pre[p] = NoSaved]
  /\ locks' = Unlocked(t)
  /\ th' = [th EXCEPT ![t] = Idle]
  /\ UNCHANGED <<dirs, mem, pending, budget, call>>

DeleteRemove(t) ==
  /\ th[t].pc = "DeleteRemove"
  /\ LET p == th[t].path IN
     /\ files' = IF p \in DOMAIN files THEN Drop(files, p) ELSE files
     /\ saved' = [saved EXCEPT ![p] = IF p \in DOMAIN files THEN NoSaved ELSE @]
     /\ res' = [res EXCEPT ![t] = Res("Delete", p, IF p \in DOMAIN files THEN "ok" ELSE "err")]
     /\ hist' = [hist EXCEPT !.pre[p] = NoSaved]
  /\ locks' = Unlocked(t)
  /\ th' = [th EXCEPT ![t] = Idle]
  /\ UNCHANGED <<dirs, mem, pending, budget, call>>

(***************************************************************************)
(* Rotate: under the exclusive lock on .keylock, write key<c+1>, set the   *)
(* current key and index in memory, write currentkey, start the sweep.     *)
(***************************************************************************)
\* fsnotify: every watcher of the key directory gets a Write event.
Notified == [P \in Procs |-> TRUE]

\* A writeFile on currentkey holds its exclusive lock between the
\* truncation and the write; readFile waits for it.
CurWriteLocked == \E t \in Threads : th[t].pc = "saveCurrentKeyIndexWrite"

\* A Save or a Delete of path p has been called and has not returned.
InCall(p) == \E u \in Threads : th[u].op \in {"Save", "Delete"} /\ th[u].path = p

\* Some other open file description holds a flock on .keylock.
KeyLockHeld(t) == Exists(KeyLock) /\ HeldByOther(t, InoOf(KeyLock), {"EX", "SH"})

\* The sweep goroutines of process P that are not running, and the calls of
\* P that are going to start one.
FreeSweeps(P) == {s \in SweepsOf(P) : th[s].pc = "idle"}
Starting(P) == {u \in ApiThreads : ProcOf(u) = P /\ th[u].op \in {"Rotate", "NewStore"}}
SweepLeft(P) == Cardinality(FreeSweeps(P)) > Cardinality(Starting(P))
FreeSweep(P) == IF "As" \in FreeSweeps(P) THEN "As"
                ELSE IF "Bs" \in FreeSweeps(P) THEN "Bs"
                ELSE CHOOSE s \in FreeSweeps(P) : TRUE
StartSweep == [Idle EXCEPT !.pc = "updateFiles", !.op = "Sweep"]

\* Rotate is called on a handle that NewStore returned, open or closed.
\* Bound: a call that starts a sweep is made while the model has a
\* goroutine left for it.
Rotate(t) ==
  /\ th[t].pc = "idle"
  /\ mem[ProcOf(t)].made
  /\ Can(t, "rot")
  /\ SweepLeft(ProcOf(t))
  /\ budget' = Spend(t, "rot")
  /\ th' = [th EXCEPT ![t] = [Idle EXCEPT !.pc = "lockStat", !.op = "Rotate",
                                         !.tgt = KeyLock, !.nxt = "RotateCheck",
                                         !.busy = KeyLockHeld(t)]]
  /\ hist' = [hist EXCEPT !.pre = [p \in Paths |-> IF InCall(p) THEN NoSaved ELSE saved[p]],
                          !.from = mem[ProcOf(t)].idx]
  /\ UNCHANGED <<dirs, files, locks, mem, res, saved, pending, call>>

\* newKeyIndex := s.currentKeyIndex + 1 on a uint8.
NextIndex_noWrap(c) == c + 1

NextIndex(c) == (c + 1) % IdxMod

\* The check of the key file left out: the key file is overwritten.
RotateCheck_overwrite(t) ==
  /\ th[t].pc = "RotateCheck"
  /\ LET m == mem[ProcOf(t)]
         n == NextIndex(m.idx)
     IN /\ dirs' = IF m.keyDir
                     THEN [dirs EXCEPT !["keys"].exists = TRUE, !["keys"].keys = Put(@, n, EmptyK)]
                     ELSE dirs
        /\ th' = [th EXCEPT ![t].nki = n, ![t].key = FreshKey, ![t].npk = m.pk,
                            ![t].out = ~m.keyDir, ![t].pc = "newKeyWrite"]
  /\ UNCHANGED <<files, locks, mem, res, saved, pending, budget, hist, call>>

\* os.Stat of key<newKeyIndex> in s.keyDir: the key file must not exist.
\* newKey then draws the key, wraps it under s.primaryKey, and writeFile's
\* lock() creates the (empty) key file.  Once Close has cleared s.keyDir both
\* paths are relative: they name a file of the working directory, which is
\* no part of the store and holds no such file.
RotateCheck(t) ==
  /\ th[t].pc = "RotateCheck"
  /\ LET m == mem[ProcOf(t)]
         n == NextIndex(m.idx)
     IN IF m.keyDir /\ dirs["keys"].exists /\ n \in DOMAIN dirs["keys"].keys
          THEN /\ Failed(t)
               /\ dirs' = dirs
          ELSE /\ dirs' = IF m.keyDir
                            THEN [dirs EXCEPT !["keys"].exists = TRUE,
                                              !["keys"].keys = Put(@, n, EmptyK)]
                            ELSE dirs
               /\ th' = [th EXCEPT ![t].nki = n, ![t].key = FreshKey, ![t].npk = m.pk,
                                   ![t].out = ~m.keyDir, ![t].pc = "newKeyWrite"]
               /\ UNCHANGED <<locks, res>>
  /\ UNCHANGED <<files, mem, saved, pending, budget, hist, call>>

\* The Store that createNewStore has filled in: s.primaryKey, s.currentKey
\* and s.currentKeyIndex = 0.  NewStore has not returned it yet.
Built(pk, key) ==
  [ClosedMem EXCEPT !.dir = TRUE, !.keyDir = TRUE, !.saltFile = TRUE, !.curKeyIdxFile = TRUE,
                    !.pk = pk, !.key = key]

\* os.WriteFile of the wrapped key; it fails when the directory is gone.
\* Rotate goes on to set the current key; createNewStore sets the key and the
\* index 0 of the Store it is building.
newKeyWrite(t) ==
  /\ th[t].pc = "newKeyWrite"
  /\ IF th[t].out \/ dirs["keys"].exists
       THEN /\ dirs' = IF th[t].out THEN dirs
                       ELSE [dirs EXCEPT !["keys"].keys =
                                           Put(@, th[t].nki, encryptKey(th[t].key, th[t].npk))]
            /\ th' = IF th[t].op = "NewStore"
                       THEN [th EXCEPT ![t].pc = "saveCurrentKeyIndexTrunc",
                                       ![t].st = Built(th[t].npk, th[t].key),
                                       ![t].npk = ZeroPK, ![t].key = 0]
                       ELSE [th EXCEPT ![t].pc = "RotateSetKey", ![t].npk = ZeroPK]
            /\ UNCHANGED <<locks, res>>
       ELSE /\ Failed(t)
            /\ dirs' = dirs
  /\ UNCHANGED <<files, mem, saved, pending, budget, hist, call>>

\* s.currentKey = newKey
RotateSetKey(t) ==
  /\ th[t].pc = "RotateSetKey"
  /\ mem' = [mem EXCEPT ![ProcOf(t)].key = th[t].key]
  /\ th' = [th EXCEPT ![t].pc = "RotateSetIdx", ![t].key = 0]
  /\ UNCHANGED <<dirs, files, locks, res, saved, pending, budget, hist, call>>

\* s.currentKeyIndex = newKeyIndex
RotateSetIdx(t) ==
  /\ th[t].pc = "RotateSetIdx"
  /\ mem' = [mem EXCEPT ![ProcOf(t)].idx = th[t].nki]
  /\ th' = [th EXCEPT ![t].pc = "saveCurrentKeyIndexTrunc"]
  /\ UNCHANGED <<dirs, files, locks, res, saved, pending, budget, hist, call>>

\* saveCurrentKeyIndex: writeFile(s.curKeyIdxFile, {s.currentKeyIndex}).
\* Once Close has cleared s.curKeyIdxFile, lock("") cannot open the file and
\* the call that saves the index returns an error.  Else os.WriteFile opens
\* the file, which truncates it; fd remembers the key directory the file is
\* in (by the inode of its .keylock) ...
saveCurrentKeyIndexTrunc(t) ==
  /\ th[t].pc = "saveCurrentKeyIndexTrunc"
  /\ IF ~StoreOf(t).curKeyIdxFile
       THEN /\ Failed(t)
            /\ UNCHANGED <<dirs, pending>>
       ELSE /\ ~CurWriteLocked
            /\ dirs' = [dirs EXCEPT !["keys"].exists = TRUE, !["keys"].cur = TruncatedCur]
            /\ th' = [th EXCEPT ![t].nki = StoreOf(t).idx, ![t].fd = dirs["keys"].lock,
                                ![t].pc = "saveCurrentKeyIndexWrite"]
            /\ pending' = Notified
            /\ UNCHANGED <<locks, res>>
  /\ UNCHANGED <<files, mem, saved, budget, hist, call>>

\* The directory that holds the file which saveCurrentKeyIndexTrunc opened.
OpenedIn(t) ==
  {d \in DirNames : dirs[d].exists /\ dirs[d].cur.exists /\ dirs[d].lock = th[t].fd}

\* ... then writes the byte into the file it opened, wherever the file is by
\* now; the write of an unlinked file reaches no name.  Rotate goes on to
\* start the sweep; createNewStore returns, its deferred unlock runs, and
\* NewStore goes on to checkForOldKeys.
saveCurrentKeyIndexWrite(t) ==
  /\ th[t].pc = "saveCurrentKeyIndexWrite"
  /\ dirs' = [d \in DirNames |->
                IF d \in OpenedIn(t) THEN [dirs[d] EXCEPT !.cur = CurFile(th[t].nki)] ELSE dirs[d]]
  /\ pending' = IF OpenedIn(t) # {} THEN Notified ELSE pending
  /\ IF th[t].op = "NewStore"
       THEN /\ th' = [th EXCEPT ![t].pc = "checkForOldKeys", ![t].fd = 0]
            /\ locks' = Unlocked(t)
       ELSE /\ th' = [th EXCEPT ![t].pc = "RotateDone", ![t].fd = 0]
            /\ locks' = locks
  /\ UNCHANGED <<files, mem, res, saved, budget, hist, call>>

\* go s.updateFiles(0); return nil (the deferred unlock runs).
RotateDone(t) ==
  /\ th[t].pc = "RotateDone"
  /\ th' = [th EXCEPT ![t] = Idle, ![FreeSweep(ProcOf(t))] = StartSweep]
  /\ locks' = Unlocked(t)
  /\ res' = [res EXCEPT ![t] = Res("Rotate", "none", "ok")]
  /\ hist' = [hist EXCEPT !.rotated = TRUE]
  /\ UNCHANGED <<dirs, files, mem, saved, pending, budget, call>>

(***************************************************************************)
(* The sweep, updateFiles(calls): re-encrypt every data file, check that   *)
(* all carry the current index, then delete the other keys under the       *)
(* exclusive lock on .keylock.                                             *)
(***************************************************************************)
\* s.tempDir is .tmp inside the key directory.
tempDir == "keys"

\* s.updateFiles(calls + 1)
Redo(r) ==
  [Idle EXCEPT !.pc = "updateFiles", !.op = "Sweep", !.calls = r.calls + 1, !.own = r.own,
               !.st = r.st]

\* The check after one file is found to carry newKeyIndex: the next file of
\* the second listing, or lock(s.lockFile) for the cleanup.
NextCheck(r) ==
  IF r.todoF = {}
    THEN [Idle EXCEPT !.pc = "lockStat", !.op = "Sweep", !.calls = r.calls, !.nki = r.nki,
                      !.own = r.own, !.st = r.st,
                      !.tgt = KeyLock, !.nxt = "updateFilesCleanup"]
    ELSE [Idle EXCEPT !.pc = "getKeyIndex", !.op = "Sweep", !.calls = r.calls, !.nki = r.nki,
                      !.own = r.own, !.st = r.st,
                      !.path = FirstPath(r.todoF), !.todoF = r.todoF \ {FirstPath(r.todoF)}]

\* calls > 10 gives up; else os.MkdirAll(s.tempDir), and the first
\* listDataFiles.
updateFiles(t) ==
  /\ th[t].pc = "updateFiles"
  /\ IF th[t].calls > MaxCalls
       THEN /\ th' = [th EXCEPT ![t] = Idle]
            /\ dirs' = dirs
       ELSE /\ dirs' = [dirs EXCEPT ![tempDir].exists = TRUE, ![tempDir].tmp = TRUE]
            /\ th' = [th EXCEPT ![t].pc = "listDataFiles", ![t].nxt = "reencryptFile"]
  /\ UNCHANGED <<files, locks, mem, res, saved, pending, budget, hist, call>>

\* The order in which filepath.Walk visits the names of the store directory
\* (the sorted names .secretskeys, .secretskeys.newpw, .secretskeys.oldpw
\* and the data files).
WalkOrder == <<"keys", "newpw", "oldpw", "p1", "p2">>
FirstName(S) == WalkOrder[CHOOSE i \in 1..Len(WalkOrder) :
                   WalkOrder[i] \in S /\ \A j \in 1..(i - 1) : WalkOrder[j] \notin S]

\* The names that os.ReadDir of the store directory returns.
RootNames == {d \in DirNames : dirs[d].exists} \cup (DOMAIN files \cap Paths)

\* listDataFiles has returned its files without an error: updateFiles goes
\* on to reencryptFile after the first listing, to getKeyIndex after the
\* second.
Listed(r) == IF r.nxt = "getKeyIndex" THEN NextCheck(r) ELSE NextFile(r)

\* listDataFiles: filepath.Walk(s.dir, ...) starts with os.Lstat of s.dir;
\* once Close has set s.dir to "" that is an error, listDataFiles returns it
\* and updateFiles returns.
listDataFilesWalk(t) ==
  /\ th[t].pc = "listDataFiles"
  /\ th' = [th EXCEPT ![t] = IF StoreOf(t).dir
                               THEN [th[t] EXCEPT !.pc = "listDataFilesReadDir"]
                               ELSE Idle]
  /\ UNCHANGED <<dirs, files, locks, mem, res, saved, pending, budget, hist, call>>

\* Walk reads the names of the store directory, then calls the function for
\* the directory itself: strings.HasPrefix(path, s.keyDir) holds of every
\* path once Close has set s.keyDir to "", the function returns SkipDir, and
\* Walk ends with no file and no error.
listDataFilesReadDir(t) ==
  /\ th[t].pc = "listDataFilesReadDir"
  /\ th' = [th EXCEPT ![t] =
       IF ~StoreOf(t).keyDir \/ RootNames = {}
         THEN Listed([th[t] EXCEPT !.todoF = {}])
         ELSE [th[t] EXCEPT !.todoW = RootNames, !.todoF = {}, !.pc = "listDataFilesLstat"]]
  /\ UNCHANGED <<dirs, files, locks, mem, res, saved, pending, budget, hist, call>>

\* Walk visits the next name: os.Lstat, and os.ReadDir when it is a
\* directory.  A name that is gone by now is an error, which the function
\* returns: listDataFiles fails and updateFiles returns.  A key directory is
\* skipped, a file is appended to the listing.
listDataFilesLstat(t) ==
  /\ th[t].pc = "listDataFilesLstat"
  /\ LET n == FirstName(th[t].todoW)
         there == IF n \in DirNames THEN dirs[n].exists ELSE n \in DOMAIN files
         r == [th[t] EXCEPT !.todoW = @ \ {n},
                            !.todoF = IF n \in DirNames THEN @ ELSE @ \cup {n}]
     IN th' = [th EXCEPT ![t] = IF ~there THEN Idle
                                 ELSE IF r.todoW = {} THEN Listed(r)
                                 ELSE r]
  /\ UNCHANGED <<dirs, files, locks, mem, res, saved, pending, budget, hist, call>>

\* reencryptFile, holding the file's lock: os.ReadFile; a file that cannot
\* be read or is empty is to be removed.
reencryptFileRead(t) ==
  /\ th[t].pc = "reencryptFileRead"
  /\ LET p == th[t].path
         c == IF p \in DOMAIN files THEN files[p].c ELSE EmptyC
     IN th' = [th EXCEPT ![t].fr = IF c.len < 1 THEN EmptyC ELSE c,
                         ![t].pc = IF c.len < 1 THEN "reencryptFileRemove"
                                   ELSE "reencryptFileIndex"]
  /\ UNCHANGED <<dirs, files, locks, mem, res, saved, pending, budget, hist, call>>

\* _ = os.Remove(path) of the file that could not be read or decrypted, as
\* the path is now; reencryptFile returns and its deferred unlock runs.
reencryptFileRemove(t) ==
  /\ th[t].pc = "reencryptFileRemove"
  /\ files' = IF th[t].path \in DOMAIN files THEN Drop(files, th[t].path) ELSE files
  /\ locks' = Unlocked(t)
  /\ th' = [th EXCEPT ![t] = NextFile(th[t])]
  /\ UNCHANGED <<dirs, mem, res, saved, pending, budget, hist, call>>

\* oldKeyIndex == s.currentKeyIndex: the file is left alone; else decryptData.
reencryptFileIndex(t) ==
  /\ th[t].pc = "reencryptFileIndex"
  /\ IF th[t].fr.idx = StoreOf(t).idx
       THEN /\ locks' = Unlocked(t)
            /\ th' = [th EXCEPT ![t] = NextFile(th[t])]
       ELSE /\ locks' = locks
            /\ th' = [th EXCEPT ![t].pc = "decryptData"]
  /\ UNCHANGED <<dirs, files, mem, res, saved, pending, budget, hist, call>>

\* os.CreateTemp in the temp directory, write, os.Rename over the path: the
\* path now names a new inode.  Without the temp directory the file is left.
reencryptFileWrite(t) ==
  /\ th[t].pc = "reencryptFileWrite"
  /\ files' = IF dirs[tempDir].exists /\ dirs[tempDir].tmp
                THEN Put(files, th[t].path, [ino |-> FreshIno, c |-> th[t].fr])
                ELSE files
  /\ locks' = Unlocked(t)
  /\ th' = [th EXCEPT ![t] = NextFile(th[t])]
  /\ UNCHANGED <<dirs, mem, res, saved, pending, budget, hist, call>>

\* newKeyIndex := s.currentKeyIndex, and the second listDataFiles.
updateFilesCheck(t) ==
  /\ th[t].pc = "updateFilesCheck"
  /\ th' = [th EXCEPT ![t].nki = StoreOf(t).idx, ![t].pc = "listDataFiles",
                      ![t].nxt = "getKeyIndex"]
  /\ UNCHANGED <<dirs, files, locks, mem, res, saved, pending, budget, hist, call>>

\* getKeyIndex(file): readFile's rLock opens the file; a file that is gone
\* is an error, which starts the next pass.
getKeyIndex(t) ==
  /\ th[t].pc = "getKeyIndex"
  /\ th' = [th EXCEPT ![t] =
       IF th[t].path \in DOMAIN files
         THEN [th[t] EXCEPT !.fd = files[th[t].path].ino, !.pc = "rflock", !.nxt = "getKeyIndexRead"]
         ELSE Redo(th[t])]
  /\ UNCHANGED <<dirs, files, locks, mem, res, saved, pending, budget, hist, call>>

\* os.ReadFile under the shared lock, unlock: a file that is gone, is empty
\* or carries another index than newKeyIndex starts the next pass.
getKeyIndexRead(t) ==
  /\ th[t].pc = "getKeyIndexRead"
  /\ LET p == th[t].path IN
     th' = [th EXCEPT ![t] =
       IF p \notin DOMAIN files \/ files[p].c.len < 1 \/ files[p].c.idx # th[t].nki
         THEN Redo(th[t])
         ELSE NextCheck(th[t])]
  /\ locks' = Unlocked(t)
  /\ UNCHANGED <<dirs, files, mem, res, saved, pending, budget, hist, call>>

\* The key files the cleanup keeps: key<newKeyIndex>.
KeepCurrent(t) == {th[t].nki}

\* filepath.Glob(s.keyDir + "/key*"); once Close has set s.keyDir to "" the
\* pattern is relative and matches no key file of the store.
GlobKeys(t) == IF StoreOf(t).keyDir THEN DOMAIN dirs["keys"].keys ELSE {}

\* Holding .keylock: a rotation since the check starts the next pass; else
\* every key file but key<newKeyIndex> is to be removed.
updateFilesCleanup(t) ==
  /\ th[t].pc = "updateFilesCleanup"
  /\ IF StoreOf(t).idx # th[t].nki
       THEN /\ locks' = Unlocked(t)
            /\ th' = [th EXCEPT ![t] = Redo(th[t])]
       ELSE /\ locks' = locks
            /\ th' = [th EXCEPT ![t].todoK = GlobKeys(t) \ KeepCurrent(t),
                                ![t].pc = "updateFilesRemove"]
  /\ UNCHANGED <<dirs, files, mem, res, saved, pending, budget, hist, call>>

\* os.Remove of one key file after the other, then os.RemoveAll(tempDir)
\* and the deferred unlock.
updateFilesRemove(t) ==
  /\ th[t].pc = "updateFilesRemove"
  /\ IF th[t].todoK # {}
       THEN LET k == CHOOSE i \in th[t].todoK : \A j \in th[t].todoK : i <= j IN
            /\ dirs' = [dirs EXCEPT !["keys"].keys =
                          IF k \in DOMAIN @ THEN Drop(@, k) ELSE @]
            /\ th' = [th EXCEPT ![t].todoK = @ \ {k}]
            /\ locks' = locks
       ELSE /\ dirs' = [dirs EXCEPT ![tempDir].tmp = FALSE]
            /\ th' = [th EXCEPT ![t] = Idle]
            /\ locks' = Unlocked(t)
  /\ UNCHANGED <<files, mem, res, saved, pending, budget, hist, call>>

(***************************************************************************)
(* rotateWatch: on a Write event for currentkey, loadCurrentKey under a    *)
(* shared lock on .keylock.  Any error ends the watcher.                   *)
(***************************************************************************)
Stopped == [Idle EXCEPT !.pc = "stopped"]

\* The select takes a Write event; an event whose name is not
\* s.curKeyIdxFile (which Close sets to "") is passed over.
rotateWatch(t) ==
  /\ t \in WatchThreads
  /\ th[t].pc = "idle"
  /\ mem[ProcOf(t)].made
  /\ pending[ProcOf(t)]
  /\ pending' = [pending EXCEPT ![ProcOf(t)] = FALSE]
  /\ th' = [th EXCEPT ![t] =
       IF mem[ProcOf(t)].curKeyIdxFile
         THEN [Idle EXCEPT !.pc = "rotateWatchLock", !.op = "Watch"]
         ELSE Idle]
  /\ UNCHANGED <<dirs, files, locks, mem, res, saved, budget, hist, call>>

\* lk, err := s.rLock(s.lockFile): .keylock is opened; an error ends the
\* watcher.
rotateWatchLock(t) ==
  /\ th[t].pc = "rotateWatchLock"
  /\ th' = [th EXCEPT ![t] =
       IF Exists(KeyLock)
         THEN [th[t] EXCEPT !.pc = "rflock", !.fd = InoOf(KeyLock), !.nxt = "loadCurrentKey"]
         ELSE Stopped]
  /\ UNCHANGED <<dirs, files, locks, mem, res, saved, pending, budget, hist, call>>

\* An error of loadCurrentKey: rotateWatch unlocks and returns;
\* openExistingStore returns the error to NewStore.
WatchFailed(r) == [r EXCEPT !.pc = "rotateWatchUnlock", !.nxt = "stopped", !.nki = 0]
LoadFailed(t) ==
  IF th[t].op = "NewStore"
    THEN Failed(t)
    ELSE /\ th' = [th EXCEPT ![t] = WatchFailed(th[t])]
         /\ UNCHANGED <<locks, res>>

\* loadCurrentKey: readFile(s.curKeyIdxFile); the path is "" once Close has
\* cleared it, and rLock opens the file, which must exist ...
loadCurrentKey(t) ==
  /\ th[t].pc = "loadCurrentKey"
  /\ IF StoreOf(t).curKeyIdxFile /\ dirs["keys"].exists /\ dirs["keys"].cur.exists
       THEN /\ th' = [th EXCEPT ![t].pc = "loadCurrentKeyRead"]
            /\ UNCHANGED <<locks, res>>
       ELSE LoadFailed(t)
  /\ UNCHANGED <<dirs, files, mem, saved, pending, budget, hist, call>>

\* ... readFile waits for the shared lock on currentkey, os.ReadFile reads
\* the path, the lock is released, and the file must hold one byte ...
loadCurrentKeyRead(t) ==
  /\ th[t].pc = "loadCurrentKeyRead"
  /\ ~CurWriteLocked
  /\ LET cur == dirs["keys"].cur IN
     IF dirs["keys"].exists /\ cur.exists /\ Len(cur.bytes) = 1
       THEN /\ th' = [th EXCEPT ![t].nki = cur.bytes[1], ![t].pc = "loadCurrentKeyIndex"]
            /\ UNCHANGED <<locks, res>>
       ELSE LoadFailed(t)
  /\ UNCHANGED <<dirs, files, mem, saved, pending, budget, hist, call>>

\* ... s.currentKeyIndex = data[0] ...
loadCurrentKeyIndex(t) ==
  /\ th[t].pc = "loadCurrentKeyIndex"
  /\ IF th[t].own
       THEN /\ th' = [th EXCEPT ![t].st.idx = th[t].nki, ![t].nki = 0,
                                ![t].pc = "loadCurrentKeyLoad"]
            /\ mem' = mem
       ELSE /\ mem' = [mem EXCEPT ![ProcOf(t)].idx = th[t].nki]
            /\ th' = [th EXCEPT ![t].nki = 0, ![t].pc = "loadCurrentKeyLoad"]
  /\ UNCHANGED <<dirs, files, locks, res, saved, pending, budget, hist, call>>

\* ... key, err := s.loadKey(s.currentKeyIndex): the index and s.keyDir are
\* read, and readFile's rLock opens the key file, which must exist; the
\* read of the file and the unwrapping are loadKeyRead and loadKeyUnwrap ...
loadCurrentKeyLoad(t) ==
  /\ th[t].pc = "loadCurrentKeyLoad"
  /\ LET m == StoreOf(t) IN
     IF m.keyDir /\ readKeyFile(dirs["keys"], m.idx).ok
       THEN /\ th' = [th EXCEPT ![t].nki = m.idx, ![t].pc = "loadKeyRead"]
            /\ UNCHANGED <<locks, res>>
       ELSE LoadedKey(t, KeyErr)
  /\ UNCHANGED <<dirs, files, mem, saved, pending, budget, hist, call>>

\* loadCurrentKey returning without the assignment of the key.
loadCurrentKeySet_keepKey(t) ==
  /\ th[t].pc = "loadCurrentKeySet"
  /\ th' = IF th[t].own
             THEN [th EXCEPT ![t].key = 0, ![t].pc = "openExistingStoreRemove"]
             ELSE [th EXCEPT ![t].key = 0, ![t].pc = "rotateWatchUnlock", ![t].nxt = "idle"]
  /\ UNCHANGED <<dirs, files, locks, mem, res, saved, pending, budget, hist, call>>

\* ... and s.currentKey = key.  rotateWatch goes on to its unlock,
\* openExistingStore to os.Stat(s.dir) and os.RemoveAll.
loadCurrentKeySet(t) ==
  /\ th[t].pc = "loadCurrentKeySet"
  /\ IF th[t].own
       THEN /\ th' = [th EXCEPT ![t].st.key = th[t].key, ![t].key = 0,
                                ![t].pc = "openExistingStoreRemove"]
            /\ mem' = mem
       ELSE /\ mem' = [mem EXCEPT ![ProcOf(t)].key = th[t].key]
            /\ th' = [th EXCEPT ![t].key = 0, ![t].pc = "rotateWatchUnlock", ![t].nxt = "idle"]
  /\ UNCHANGED <<dirs, files, locks, res, saved, pending, budget, hist, call>>

\* lk.unlock() in rotateWatch; after an error of loadCurrentKey the watcher
\* returns, else it waits for the next event.
rotateWatchUnlock(t) ==
  /\ th[t].pc = "rotateWatchUnlock"
  /\ locks' = Unlocked(t)
  /\ th' = [th EXCEPT ![t] = IF th[t].nxt = "stopped" THEN Stopped ELSE Idle]
  /\ UNCHANGED <<dirs, files, mem, res, saved, pending, budget, hist, call>>

(***************************************************************************)
(* Path validation.  A path is a sequence of characters; the store root    *)
(* s.dir is /a.  filepath.Clean, filepath.Join, filepath.Dir and           *)
(* strings.HasPrefix are computed as the Go library computes them.         *)
(***************************************************************************)
Chars == {"a", ".", "/"}
PathsUpTo(n) == UNION {[1..k -> Chars] : k \in 0..n}
storeDir == <<"/", "a">>
DotDot == <<".", ".">>

HasPrefix(s, pre) == Len(s) >= Len(pre) /\ SubSeq(s, 1, Len(pre)) = pre

\* The elements between the separators.
RECURSIVE Split(_)
Split(s) ==
  IF \A i \in 1..Len(s) : s[i] # "/" THEN <<s>>
  ELSE LET i == CHOOSE j \in 1..Len(s) : s[j] = "/" /\ \A k \in 1..(j - 1) : s[k] # "/"
       IN <<SubSeq(s, 1, i - 1)>> \o Split(SubSeq(s, i + 1, Len(s)))

\* Clean's loop: empty elements and "." are dropped, ".." removes the
\* element before it, is dropped at the root, and is kept at the start of a
\* relative path.
RECURSIVE CleanElems(_, _, _)
CleanElems(elems, out, rooted) ==
  IF elems = <<>> THEN out
  ELSE LET e == Head(elems) IN
       IF e = <<>> \/ e = <<".">> THEN CleanElems(Tail(elems), out, rooted)
       ELSE IF e = DotDot
         THEN IF out # <<>> /\ out[Len(out)] # DotDot
                THEN CleanElems(Tail(elems), SubSeq(out, 1, Len(out) - 1), rooted)
              ELSE IF rooted THEN CleanElems(Tail(elems), out, rooted)
              ELSE CleanElems(Tail(elems), Append(out, e), rooted)
       ELSE CleanElems(Tail(elems), Append(out, e), rooted)

RECURSIVE JoinElems(_)
JoinElems(es) ==
  IF es = <<>> THEN <<>>
  ELSE IF Len(es) = 1 THEN es[1]
  ELSE es[1] \o <<"/">> \o JoinElems(Tail(es))

Clean(s) ==
  IF s = <<>> THEN <<".">>
  ELSE LET rooted == s[1] = "/"
           out == CleanElems(Split(s), <<>>, rooted)
       IN IF rooted THEN <<"/">> \o JoinElems(out)
          ELSE IF out = <<>> THEN <<".">> ELSE JoinElems(out)

\* Join ignores empty elements and cleans the result.
Join(dir, p) == IF p = <<>> THEN Clean(dir) ELSE Clean(dir \o <<"/">> \o p)

\* Dir: the path up to its last separator, cleaned.
Dir(s) ==
  IF \A i \in 1..Len(s) : s[i] # "/" THEN <<".">>
  ELSE LET i == CHOOSE j \in 1..Len(s) : s[j] = "/" /\ \A k \in (j + 1)..Len(s) : s[k] # "/"
       IN Clean(SubSeq(s, 1, i))

\* The directories above a cleaned absolute path.
RECURSIVE Ancestors(_)
Ancestors(s) == IF s = <<"/">> THEN {} ELSE {Dir(s)} \cup Ancestors(Dir(s))

\* The tree the calls act on: the store root /a with one secret /a/a, and a
\* sibling directory /aa with one file /aa/a.
InitTree ==
  [files |-> {<<"/", "a", "/", "a">>, <<"/", "a", "a", "/", "a">>},
   dirs |-> {<<"/">>, <<"/", "a">>, <<"/", "a", "a">>}]

\* os.Stat
Stat(tr, s) ==
  IF s \in tr.dirs THEN "dir"
  ELSE IF s \in tr.files THEN "file"
  ELSE IF Ancestors(s) \cap tr.files # {} THEN "notdir"
  ELSE "none"

NoCall == [op |-> "none", arg |-> <<>>, full |-> <<>>, st |-> "none", tree |-> InitTree, before |-> InitTree]
Called(op, arg, full, st, tr) ==
  [op |-> op, arg |-> arg, full |-> full, st |-> st, tree |-> tr, before |-> call.tree]

\* Save without the Stat of the path: a directory is written over.
SaveCall_noDirCheck(arg) ==
  /\ call.op = "none"
  /\ LET full == Join(storeDir, arg)
         tr == call.tree
     IN call' =
          IF arg = <<>> \/ ~HasPrefix(full, storeDir \o <<"/">>)
            THEN Called("Save", arg, full, "rejected", tr)
          ELSE IF Ancestors(full) \cap tr.files # {}
            THEN Called("Save", arg, full, "err", tr)
          ELSE Called("Save", arg, full, "ok",
                      [files |-> tr.files \cup {full}, dirs |-> tr.dirs \cup Ancestors(full)])
  /\ UNCHANGED <<dirs, files, locks, mem, th, res, saved, pending, budget, hist>>

\* Save: the empty path and a join outside s.dir + "/" are rejected; then
\* MkdirAll of the directory, Stat (a directory is an error), writeFile.
SaveCall(arg) ==
  /\ call.op = "none"
  /\ LET full == Join(storeDir, arg)
         tr == call.tree
     IN call' =
          IF arg = <<>> \/ ~HasPrefix(full, storeDir \o <<"/">>)
            THEN Called("Save", arg, full, "rejected", tr)
          ELSE IF Ancestors(full) \cap tr.files # {}
            THEN Called("Save", arg, full, "err", tr)
          ELSE IF full \in tr.dirs
            THEN Called("Save", arg, full, "err", tr)
          ELSE Called("Save", arg, full, "ok",
                      [files |-> tr.files \cup {full}, dirs |-> tr.dirs \cup Ancestors(full)])
  /\ UNCHANGED <<dirs, files, locks, mem, th, res, saved, pending, budget, hist>>

\* Load: the same validation, then readFile.
LoadCall(arg) ==
  /\ call.op = "none"
  /\ LET full == Join(storeDir, arg)
         tr == call.tree
     IN call' =
          IF arg = <<>> \/ ~HasPrefix(full, storeDir \o <<"/">>)
            THEN Called("Load", arg, full, "rejected", tr)
          ELSE Called("Load", arg, full, IF Stat(tr, full) = "file" THEN "ok" ELSE "err", tr)
  /\ UNCHANGED <<dirs, files, locks, mem, th, res, saved, pending, budget, hist>>

\* Delete: the cleaned join must have s.dir as a prefix; a missing file is
\* success; lock() cannot open a directory for writing; os.Remove.
DeleteCall(arg) ==
  /\ call.op = "none"
  /\ LET full == Clean(Join(storeDir, arg))
         tr == call.tree
     IN call' =
          IF ~HasPrefix(full, storeDir)
            THEN Called("Delete", arg, full, "rejected", tr)
          ELSE IF Stat(tr, full) = "none"
            THEN Called("Delete", arg, full, "ok", tr)
          ELSE IF Stat(tr, full) \in {"notdir", "dir"}
            THEN Called("Delete", arg, full, "err", tr)
          ELSE Called("Delete", arg, full, "ok", [tr EXCEPT !.files = @ \ {full}])
  /\ UNCHANGED <<dirs, files, locks, mem, th, res, saved, pending, budget, hist>>

(***************************************************************************)
(* The store after NewStore created it under password pw, brought by       *)
(* rotations and their sweeps to current index c: one key, no data.        *)
(***************************************************************************)
\* rotated: a Rotate has returned success; pre: the secrets saved when the
\* last Rotate was called and neither saved nor deleted since; vals: the
\* values Save was ever called with.
\* crashAt: where the Passwd call was that the last kill interrupted.
\* from: s.currentKeyIndex when the last Rotate was called.
\* pwErr: why Passwd calls have failed before doing anything: "empty" (the
\* new password) or "busy" (the lock).
NoHist ==
  [rotated |-> FALSE, pre |-> [p \in Paths |-> NoSaved], vals |-> [p \in Paths |-> {}],
   crashAt |-> "none", from |-> 0, pwErr |-> {}]

StoreDir(c, pw) ==
  [exists |-> TRUE, salt |-> 1, cur |-> CurFile(c),
   keys |-> Put(NoKeys, c, encryptKey(1, deriveKeyFromPassword(pw, 1).key)),
   lock |-> 1, tmp |-> FALSE, sub |-> FALSE]
OpenMem(c, pw) ==
  [Built(deriveKeyFromPassword(pw, 1).key, 1) EXCEPT !.made = TRUE, !.idx = c]

InitStore(c, open) ==
  /\ dirs = [d \in DirNames |-> IF d = "keys" THEN StoreDir(c, "pw0") ELSE NoDir]
  /\ files = [x \in {} |-> 0]
  /\ locks = {}
  /\ mem = [P \in Procs |-> IF P \in open THEN OpenMem(c, "pw0") ELSE ClosedMem]
  /\ th = [t \in Threads |-> Idle]
  /\ res = [t \in Threads |-> NoRes]
  /\ saved = [p \in Paths |-> NoSaved]
  /\ pending = [P \in Procs |-> FALSE]
  /\ hist = NoHist
  /\ call = NoCall

StartIdx == {0, IdxMod - 1}

(***************************************************************************)
(* Passwd: under a non-blocking exclusive lock on .keylock, copy the key   *)
(* directory to .newpw, write a new salt and rewrap every key in the copy, *)
(* rename the key directory to .oldpw and .newpw into its place, switch    *)
(* the primary key in memory, zero and remove .oldpw.                      *)
(***************************************************************************)
\* len(newpassword) == 0 is an error before anything is touched.
Passwd(t, pw) ==
  /\ th[t].pc = "idle"
  /\ Handle(ProcOf(t))
  /\ Can(t, "pw")
  /\ budget' = Spend(t, "pw")
  /\ IF pw = ""
       THEN /\ res' = [res EXCEPT ![t] = Res("Passwd", "none", "err")]
            /\ hist' = [hist EXCEPT !.pwErr = @ \cup {"empty"}]
            /\ th' = th
       ELSE /\ th' = [th EXCEPT ![t] = [Idle EXCEPT !.pc = "lockNB", !.op = "Passwd", !.pw = pw,
                                                    !.tgt = KeyLock]]
            /\ UNCHANGED <<res, hist>>
  /\ UNCHANGED <<dirs, files, locks, mem, saved, pending, call>>

\* lockNB(path): MkdirAll, OpenFile(O_CREATE|O_RDWR), flock(LOCK_EX|LOCK_NB):
\* a lock held by anybody else is an error.
\* The lock taken whoever holds it.
lockNB_ignoreHolder(t) ==
  /\ th[t].pc = "lockNB"
  /\ dirs' = CreatedDirs(KeyLock)
  /\ th' = [th EXCEPT ![t].fd = CreatedIno(KeyLock), ![t].pc = "PasswdCopyDir"]
  /\ locks' = locks \cup {[t |-> t, ino |-> CreatedIno(KeyLock), mode |-> "EX"]}
  /\ UNCHANGED <<files, mem, res, saved, pending, budget, hist, call>>

lockNB(t) ==
  /\ th[t].pc = "lockNB"
  /\ dirs' = CreatedDirs(KeyLock)
  /\ IF HeldByOther(t, CreatedIno(KeyLock), {"EX", "SH"})
       THEN /\ th' = [th EXCEPT ![t] = Idle]
            /\ res' = [res EXCEPT ![t] = Res("Passwd", "none", "err")]
            /\ hist' = [hist EXCEPT !.pwErr = @ \cup {"busy"}]
            /\ locks' = locks
       ELSE /\ th' = [th EXCEPT ![t].fd = CreatedIno(KeyLock), ![t].pc = "PasswdCopyDir"]
            /\ res' = res
            /\ hist' = hist
            /\ locks' = locks \cup {[t |-> t, ino |-> CreatedIno(KeyLock), mode |-> "EX"]}
  /\ UNCHANGED <<files, mem, saved, pending, budget, call>>

\* passwdCleanup(newdir): os.RemoveAll.
passwdCleanup(ds) == [ds EXCEPT !["newpw"] = NoDir]

\* /bin/cp -pr keyDir newdir.  Without a newdir, cp makes the directory ...
\* With a newdir (a killed Passwd left it), cp copies the key directory into
\* it, as the subdirectory newdir/.secretskeys: ex remembers which.
PasswdCopyDir(t) ==
  /\ th[t].pc = "PasswdCopyDir"
  /\ IF ~dirs["keys"].exists
       THEN /\ Failed(t)
            /\ dirs' = dirs
       ELSE /\ dirs' = IF dirs["newpw"].exists THEN dirs
                       ELSE [dirs EXCEPT !["newpw"] = [NoDir EXCEPT !.exists = TRUE]]
            /\ th' = [th EXCEPT ![t].ex = dirs["newpw"].exists, ![t].pc = "PasswdCopyFiles"]
            /\ UNCHANGED <<res, locks>>
  /\ UNCHANGED <<files, mem, saved, pending, budget, hist, call>>

\* ... and copies the files into it; the copy of .keylock is a new inode.
\* The copy into a subdirectory leaves the files of newdir as they were.
PasswdCopyFiles(t) ==
  /\ th[t].pc = "PasswdCopyFiles"
  /\ IF ~dirs["keys"].exists \/ ~dirs["newpw"].exists
       THEN /\ Failed(t)
            /\ dirs' = dirs
       ELSE /\ dirs' = [dirs EXCEPT !["newpw"] =
                          IF th[t].ex
                            THEN [@ EXCEPT !.sub = TRUE]
                            ELSE [dirs["keys"] EXCEPT !.lock = IF @ = 0 THEN 0 ELSE FreshIno]]
            /\ th' = [th EXCEPT ![t].ex = FALSE, ![t].pc = "PasswdSalt"]
            /\ UNCHANGED <<res, locks>>
  /\ UNCHANGED <<files, mem, saved, pending, budget, hist, call>>

\* A writeFile on a file of newdir holds the exclusive lock on it from
\* lock() to the end of the write; readFile and writeFile wait for it.
NewSaltWriteLocked(t) == \E u \in Threads \ {t} : th[u].pc = "PasswdSaltWrite"
NewKeyWriteLocked(t, k) ==
  \E u \in Threads \ {t} : th[u].pc = "PasswdRewrapWrite" /\ th[u].nki = k

\* generateSalt, and writeFile(newdir/primarysalt): lock() makes the
\* directory and the file when they are missing and waits for the exclusive
\* lock, and os.WriteFile opens the file with O_TRUNC ...
PasswdSalt(t) ==
  /\ th[t].pc = "PasswdSalt"
  /\ ~NewSaltWriteLocked(t)
  /\ dirs' = [dirs EXCEPT !["newpw"].exists = TRUE, !["newpw"].salt = ShortSalt]
  /\ th' = [th EXCEPT ![t].npk = deriveKeyFromPassword(th[t].pw, FreshSalt).key,
                      ![t].pc = "PasswdSaltWrite"]
  /\ UNCHANGED <<files, locks, mem, res, saved, pending, budget, hist, call>>

\* ... writes the salt into the file it opened (a directory that has been
\* removed since holds no such file) and the lock is released;
\* deriveKeyFromPassword gives the new primary key.
PasswdSaltWrite(t) ==
  /\ th[t].pc = "PasswdSaltWrite"
  /\ dirs' = IF dirs["newpw"].exists
               THEN [dirs EXCEPT !["newpw"].salt = th[t].npk.salt]
               ELSE dirs
  /\ th' = [th EXCEPT ![t].pc = "PasswdGlob"]
  /\ UNCHANGED <<files, locks, mem, res, saved, pending, budget, hist, call>>

\* keys, err := filepath.Glob(newdir/key*).
PasswdGlob(t) ==
  /\ th[t].pc = "PasswdGlob"
  /\ th' = [th EXCEPT ![t].todoK = DOMAIN dirs["newpw"].keys, ![t].pc = "PasswdRewrap"]
  /\ UNCHANGED <<dirs, files, locks, mem, res, saved, pending, budget, hist, call>>

\* An error in the loop returns, and the deferred passwdCleanup and unlock
\* run.
PasswdFailed(t) ==
  /\ dirs' = passwdCleanup(dirs)
  /\ th' = [th EXCEPT ![t] = Idle]
  /\ res' = [res EXCEPT ![t] = Res("Passwd", "none", "err")]
  /\ locks' = Unlocked(t)

\* The loop over the key files of the copy.  loadKeyFromPath's readFile of
\* the next one: rLock opens the file, which must exist, and waits for the
\* shared lock, os.ReadFile reads it, and the lock is released ...
PasswdRewrap(t) ==
  /\ th[t].pc = "PasswdRewrap"
  /\ IF th[t].todoK = {}
       THEN /\ th' = [th EXCEPT ![t].pc = "PasswdRename1"]
            /\ UNCHANGED <<dirs, locks, res>>
       ELSE LET k == CHOOSE i \in th[t].todoK : \A j \in th[t].todoK : i <= j
                f == readKeyFile(dirs["newpw"], k)
            IN /\ f.ok => ~NewKeyWriteLocked(t, k)
               /\ IF f.ok
                    THEN /\ th' = [th EXCEPT ![t].kf = f.kf, ![t].nki = k,
                                             ![t].todoK = @ \ {k}, ![t].pc = "PasswdRewrapKey"]
                         /\ UNCHANGED <<dirs, locks, res>>
                    ELSE PasswdFailed(t)
  /\ UNCHANGED <<files, mem, saved, pending, budget, hist, call>>

\* ... loadKeyFromPath opens the bytes under s.primaryKey as it is now, and
\* encryptKey wraps the key under the new primary key ...
PasswdRewrapKey(t) ==
  /\ th[t].pc = "PasswdRewrapKey"
  /\ LET r == loadKeyFromPath(mem[ProcOf(t)].pk, th[t].kf) IN
     IF r.ok
       THEN /\ th' = [th EXCEPT ![t].key = r.key, ![t].kf = EmptyK,
                                ![t].pc = "PasswdRewrapTrunc"]
            /\ UNCHANGED <<dirs, locks, res>>
       ELSE PasswdFailed(t)
  /\ UNCHANGED <<files, mem, saved, pending, budget, hist, call>>

\* ... writeFile(keyPath): lock() makes the directory and the file when
\* they are missing and waits for the exclusive lock, and os.WriteFile opens
\* the file with O_TRUNC ...
PasswdRewrapTrunc(t) ==
  /\ th[t].pc = "PasswdRewrapTrunc"
  /\ ~NewKeyWriteLocked(t, th[t].nki)
  /\ dirs' = [dirs EXCEPT !["newpw"].exists = TRUE,
                          !["newpw"].keys = Put(@, th[t].nki, EmptyK)]
  /\ th' = [th EXCEPT ![t].pc = "PasswdRewrapWrite"]
  /\ UNCHANGED <<files, locks, mem, res, saved, pending, budget, hist, call>>

\* ... and writes the wrapped key into the file it opened; the lock is
\* released and the loop goes on.
PasswdRewrapWrite(t) ==
  /\ th[t].pc = "PasswdRewrapWrite"
  /\ dirs' = IF dirs["newpw"].exists /\ th[t].nki \in DOMAIN dirs["newpw"].keys
               THEN [dirs EXCEPT !["newpw"].keys[th[t].nki] = encryptKey(th[t].key, th[t].npk)]
               ELSE dirs
  /\ th' = [th EXCEPT ![t].key = 0, ![t].nki = 0, ![t].pc = "PasswdRewrap"]
  /\ UNCHANGED <<files, locks, mem, res, saved, pending, budget, hist, call>>

\* os.Rename(keyDir, oldDir): fails without a key directory or onto a
\* directory that has entries.
PasswdRename1(t) ==
  /\ th[t].pc = "PasswdRename1"
  /\ IF dirs["keys"].exists /\ ~dirs["oldpw"].exists
       THEN /\ dirs' = [dirs EXCEPT !["oldpw"] = dirs["keys"], !["keys"] = NoDir]
            /\ th' = [th EXCEPT ![t].pc = "PasswdRename2"]
            /\ UNCHANGED <<locks, res>>
       ELSE /\ dirs' = passwdCleanup(dirs)
            /\ th' = [th EXCEPT ![t] = Idle]
            /\ res' = [res EXCEPT ![t] = Res("Passwd", "none", "err")]
            /\ locks' = Unlocked(t)
  /\ UNCHANGED <<files, mem, saved, pending, budget, hist, call>>

\* os.Rename(newdir, keyDir); when it fails, os.Rename(oldDir, keyDir) tries
\* to put the old directory back.
PasswdRename2(t) ==
  /\ th[t].pc = "PasswdRename2"
  /\ IF dirs["newpw"].exists /\ ~dirs["keys"].exists
       THEN /\ dirs' = [dirs EXCEPT !["keys"] = dirs["newpw"], !["newpw"] = NoDir]
            /\ th' = [th EXCEPT ![t].pc = "PasswdSetKey"]
            /\ UNCHANGED <<locks, res>>
       ELSE /\ dirs' = passwdCleanup(
                         IF dirs["oldpw"].exists /\ ~dirs["keys"].exists
                           THEN [dirs EXCEPT !["keys"] = dirs["oldpw"], !["oldpw"] = NoDir]
                           ELSE dirs)
            /\ th' = [th EXCEPT ![t] = Idle]
            /\ res' = [res EXCEPT ![t] = Res("Passwd", "none", "err")]
            /\ locks' = Unlocked(t)
  /\ UNCHANGED <<files, mem, saved, pending, budget, hist, call>>

\* Passwd leaving the old primary key in memory.
PasswdSetKey_keepPrimary(t) ==
  /\ th[t].pc = "PasswdSetKey"
  /\ th' = [th EXCEPT ![t].npk = ZeroPK, ![t].pc = "zeroOldKeys",
                      ![t].todoK = IF dirs["oldpw"].exists THEN DOMAIN dirs["oldpw"].keys ELSE {}]
  /\ UNCHANGED <<dirs, files, locks, mem, res, saved, pending, budget, hist, call>>

\* s.primaryKey = newPrimaryKey; zeroOldKeys globs oldDir/key*.
PasswdSetKey(t) ==
  /\ th[t].pc = "PasswdSetKey"
  /\ mem' = [mem EXCEPT ![ProcOf(t)].pk = th[t].npk]
  /\ th' = [th EXCEPT ![t].npk = ZeroPK, ![t].pc = "zeroOldKeys",
                      ![t].todoK = IF dirs["oldpw"].exists THEN DOMAIN dirs["oldpw"].keys ELSE {}]
  /\ UNCHANGED <<dirs, files, locks, res, saved, pending, budget, hist, call>>

\* zeroOldKeys: zeroes over one old key file after the other, then the
\* deferred os.RemoveAll(oldDir); Passwd returns nil and its deferred
\* passwdCleanup and unlock run.
zeroOldKeys(t) ==
  /\ th[t].pc = "zeroOldKeys"
  /\ IF th[t].todoK # {}
       THEN LET k == CHOOSE i \in th[t].todoK : \A j \in th[t].todoK : i <= j IN
            /\ dirs' = IF dirs["oldpw"].exists /\ k \in DOMAIN dirs["oldpw"].keys
                         THEN [dirs EXCEPT !["oldpw"].keys[k] = Zeroed(@)]
                         ELSE dirs
            /\ th' = [th EXCEPT ![t].todoK = @ \ {k}]
            /\ UNCHANGED <<locks, res>>
       ELSE /\ dirs' = passwdCleanup([dirs EXCEPT !["oldpw"] = NoDir])
            /\ th' = [th EXCEPT ![t] = Idle]
            /\ res' = [res EXCEPT ![t] = Res("Passwd", "none", "ok")]
            /\ locks' = Unlocked(t)
  /\ UNCHANGED <<files, mem, saved, pending, budget, hist, call>>

(***************************************************************************)
(* The process is killed, at any time: its goroutines, its locks and its   *)
(* memory are gone, the disk stays as its last filesystem call left it.    *)
(***************************************************************************)
Running(P) == {u \in Threads : ProcOf(u) = P /\ th[u].pc \notin {"idle", "stopped"}}
InPasswd(P) == {u \in Running(P) : th[u].op = "Passwd"}

Crash(t) ==
  LET P == ProcOf(t) IN
  /\ Can(t, "crash")
  /\ budget' = Spend(t, "crash")
  /\ th' = [u \in Threads |-> IF ProcOf(u) = P THEN Idle ELSE th[u]]
  /\ locks' = {l \in locks : ProcOf(l.t) # P}
  /\ mem' = [mem EXCEPT ![P] = ClosedMem]
  /\ res' = [u \in Threads |-> IF ProcOf(u) = P THEN NoRes ELSE res[u]]
  /\ pending' = [pending EXCEPT ![P] = FALSE]
  /\ hist' = [hist EXCEPT !.crashAt =
       IF InPasswd(P) # {} THEN th[CHOOSE u \in InPasswd(P) : TRUE].pc ELSE "run"]
  /\ UNCHANGED <<dirs, files, saved, call>>

(***************************************************************************)
(* NewStore: checkNewStore, then createNewStore or openExistingStore, then *)
(* checkForOldKeys and the watcher.                                        *)
(***************************************************************************)
\* The store path names a regular file rather than a directory: the one
\* name the file map then holds.
RootFile == "."

CheckErr(ds) == [err |-> TRUE, new |-> FALSE, dirs |-> ds]
CheckOk(ds, new) == [err |-> FALSE, new |-> new, dirs |-> ds]

\* The store path must be a directory or absent.  No key directory: .oldpw
\* is renamed back if it is there, else the store directory must be empty
\* (a new store).  A key directory must hold the salt, a one byte
\* currentkey and the key file it names.
checkNewStore(ds, fs) ==
  LET kd == ds["keys"] IN
  IF RootFile \in DOMAIN fs THEN CheckErr(ds)
  ELSE IF ~kd.exists
    THEN IF ds["oldpw"].exists
           THEN CheckOk([ds EXCEPT !["keys"] = ds["oldpw"], !["oldpw"] = NoDir], FALSE)
         ELSE IF DOMAIN fs # {} \/ ds["newpw"].exists
           THEN CheckErr(ds) ELSE CheckOk(ds, TRUE)
  ELSE IF kd.salt = 0 THEN CheckErr(ds)
  ELSE IF ~kd.cur.exists \/ Len(kd.cur.bytes) # 1 THEN CheckErr(ds)
  ELSE IF kd.cur.bytes[1] \notin DOMAIN kd.keys THEN CheckErr(ds)
  ELSE CheckOk(ds, FALSE)

OpenErr(ds) == [ok |-> FALSE, mem |-> ClosedMem, dirs |-> ds]

\* createNewStore run alone: the key directory, a salt, key0 and
\* currentkey = 0.
createNewStore(ds, pw) ==
  LET pk == deriveKeyFromPassword(pw, FreshSalt).key IN
  [ok |-> TRUE,
   mem |-> Built(pk, FreshKey),
   dirs |-> [ds EXCEPT !["keys"] =
               [exists |-> TRUE, salt |-> FreshSalt, cur |-> CurFile(0),
                keys |-> Put(NoKeys, 0, encryptKey(FreshKey, pk)),
                lock |-> FreshIno, tmp |-> FALSE, sub |-> FALSE]]]

\* openExistingStore run with nothing else touching the disk: getPrimaryKey
\* reads the salt and derives the primary key, loadCurrentKey reads
\* currentkey and unwraps the key file it names, and .newpw is removed.
openExistingStore(ds, pw) ==
  LET kd == ds["keys"]
      pk == deriveKeyFromPassword(pw, kd.salt)
      m == [Built(pk.key, 0) EXCEPT !.idx = 0]
  IN IF ~kd.exists \/ kd.salt = 0 \/ ~pk.ok THEN OpenErr(ds)
     ELSE IF ~kd.cur.exists \/ Len(kd.cur.bytes) # 1 THEN OpenErr(ds)
     ELSE LET c == kd.cur.bytes[1]
              k == loadKey(m, kd, c)
          IN IF ~k.ok THEN OpenErr(ds)
             ELSE [ok |-> TRUE, mem |-> [m EXCEPT !.key = k.key, !.idx = c],
                   dirs |-> passwdCleanup(ds)]

\* A sweep only for more than two key files.
checkForOldKeys_three(ds) == Cardinality(DOMAIN ds["keys"].keys) > 2

\* checkForOldKeys: more than one key file starts the sweep.
checkForOldKeys(ds) == Cardinality(DOMAIN ds["keys"].keys) > 1

\* rLock(s.lockFile) opens .keylock, which must exist.
rLockOpens(ds) == ds["keys"].exists /\ ds["keys"].lock # 0

\* What NewStore(dir, pw), run with nothing else touching the disk, makes of
\* the disk.
NewStoreResult(pw) ==
  LET c == checkNewStore(dirs, files) IN
  IF pw = "" THEN OpenErr(dirs)
  ELSE IF c.err THEN OpenErr(c.dirs)
  ELSE IF c.new THEN createNewStore(c.dirs, pw)
  ELSE IF ~rLockOpens(c.dirs) THEN OpenErr(c.dirs)
  ELSE openExistingStore(c.dirs, pw)

\* NewStore: the empty password is an error; else a Store of its own is
\* made (th[t].st, with its paths and no key) and checkNewStore runs.  A
\* handle that the client got from an earlier call is not touched, whatever
\* this call returns.
\* Bound: a process holds one handle, mem[P]; the client calls NewStore
\* when it holds none or a closed one.  The model has one watcher goroutine
\* for a process, and a call is made when it is at rest.
NewStore(t, pw) ==
  LET P == ProcOf(t) IN
  /\ th[t].pc = "idle"
  /\ Cleared(mem[P])
  /\ th[WatchOf(P)].pc \in {"idle", "stopped"}
  /\ SweepLeft(P)
  /\ IF pw = ""
       THEN /\ res' = [res EXCEPT ![t] = Res("NewStore", "none", "err")]
            /\ th' = th
       ELSE /\ th' = [th EXCEPT ![t] =
                      [Idle EXCEPT !.pc = "checkNewStore", !.op = "NewStore", !.pw = pw,
                                   !.own = TRUE, !.st = Built(ZeroPK, 0)]]
            /\ res' = res
  /\ UNCHANGED <<dirs, files, locks, mem, saved, pending, budget, hist, call>>

\* checkNewStore holds no lock, and each of its system calls is a step.
\* os.Stat(s.dir): the path must not name a file.  A store directory that
\* is missing and one that is empty are the same disk here; both make a new
\* store, the empty one by way of os.ReadDir.
checkNewStoreStatDir(t) ==
  /\ th[t].pc = "checkNewStore"
  /\ IF RootFile \in DOMAIN files
       THEN Failed(t)
       ELSE /\ th' = [th EXCEPT ![t].pc = "checkNewStoreStatKeyDir"]
            /\ UNCHANGED <<locks, res>>
  /\ UNCHANGED <<dirs, files, mem, saved, pending, budget, hist, call>>

\* os.Stat(s.keyDir) finding a key directory, which is taken for the
\* directory of a new store.
checkNewStoreStatKeyDir_reinitialize(t) ==
  /\ th[t].pc = "checkNewStoreStatKeyDir"
  /\ th' = [th EXCEPT ![t].pc = IF dirs["keys"].exists THEN "createNewStore"
                                 ELSE "checkNewStoreStatOld"]
  /\ UNCHANGED <<dirs, files, locks, mem, res, saved, pending, budget, hist, call>>

\* os.Stat(s.keyDir): with a key directory the store exists and its files
\* are checked; without one .oldpw is looked for.
checkNewStoreStatKeyDir(t) ==
  /\ th[t].pc = "checkNewStoreStatKeyDir"
  /\ th' = [th EXCEPT ![t].pc = IF dirs["keys"].exists THEN "checkNewStoreStatSalt"
                                 ELSE "checkNewStoreStatOld"]
  /\ UNCHANGED <<dirs, files, locks, mem, res, saved, pending, budget, hist, call>>

\* os.Stat(oldDir): a .oldpw directory is to be renamed back.
checkNewStoreStatOld(t) ==
  /\ th[t].pc = "checkNewStoreStatOld"
  /\ th' = [th EXCEPT ![t].pc = IF dirs["oldpw"].exists THEN "checkNewStoreRename"
                                 ELSE "checkNewStoreReadDir"]
  /\ UNCHANGED <<dirs, files, locks, mem, res, saved, pending, budget, hist, call>>

\* os.Rename(oldDir, s.keyDir): it fails when .oldpw is gone or a key
\* directory is in the way; else the store exists.
checkNewStoreRename(t) ==
  /\ th[t].pc = "checkNewStoreRename"
  /\ IF dirs["oldpw"].exists /\ ~dirs["keys"].exists
       THEN /\ dirs' = [dirs EXCEPT !["keys"] = dirs["oldpw"], !["oldpw"] = NoDir]
            /\ th' = [th EXCEPT ![t].pc = "openExistingStore"]
            /\ UNCHANGED <<locks, res>>
       ELSE /\ Failed(t)
            /\ dirs' = dirs
  /\ UNCHANGED <<files, mem, saved, pending, budget, hist, call>>

\* checkNewStore without the os.ReadDir test: any directory without a key
\* directory is taken for a new store.
checkNewStoreReadDir_anyDir(t) ==
  /\ th[t].pc = "checkNewStoreReadDir"
  /\ th' = [th EXCEPT ![t].pc = "createNewStore"]
  /\ UNCHANGED <<dirs, files, locks, mem, res, saved, pending, budget, hist, call>>

\* os.ReadDir(s.dir): a directory with any entry is no new store.
checkNewStoreReadDir(t) ==
  /\ th[t].pc = "checkNewStoreReadDir"
  /\ IF DOMAIN files # {} \/ \E d \in DirNames : dirs[d].exists
       THEN Failed(t)
       ELSE /\ th' = [th EXCEPT ![t].pc = "createNewStore"]
            /\ UNCHANGED <<locks, res>>
  /\ UNCHANGED <<dirs, files, mem, saved, pending, budget, hist, call>>

\* os.Stat(s.saltFile): the salt file must exist.
checkNewStoreStatSalt(t) ==
  /\ th[t].pc = "checkNewStoreStatSalt"
  /\ IF dirs["keys"].exists /\ dirs["keys"].salt # 0
       THEN /\ th' = [th EXCEPT ![t].pc = "checkNewStoreReadCur"]
            /\ UNCHANGED <<locks, res>>
       ELSE Failed(t)
  /\ UNCHANGED <<dirs, files, mem, saved, pending, budget, hist, call>>

\* os.ReadFile(s.curKeyIdxFile), with no lock: currentkey must hold one
\* byte.
checkNewStoreReadCur(t) ==
  /\ th[t].pc = "checkNewStoreReadCur"
  /\ LET cur == dirs["keys"].cur IN
     IF dirs["keys"].exists /\ cur.exists /\ Len(cur.bytes) = 1
       THEN /\ th' = [th EXCEPT ![t].nki = cur.bytes[1], ![t].pc = "checkNewStoreStatKey"]
            /\ UNCHANGED <<locks, res>>
       ELSE Failed(t)
  /\ UNCHANGED <<dirs, files, mem, saved, pending, budget, hist, call>>

\* os.Stat of the key file that the byte names: it must exist now.
checkNewStoreStatKey(t) ==
  /\ th[t].pc = "checkNewStoreStatKey"
  /\ IF dirs["keys"].exists /\ th[t].nki \in DOMAIN dirs["keys"].keys
       THEN /\ th' = [th EXCEPT ![t].nki = 0, ![t].pc = "openExistingStore"]
            /\ UNCHANGED <<locks, res>>
       ELSE Failed(t)
  /\ UNCHANGED <<dirs, files, mem, saved, pending, budget, hist, call>>

\* createNewStore: os.MkdirAll(s.keyDir) and s.lockNB(s.lockFile).
createNewStoreLock(t) ==
  /\ th[t].pc = "createNewStore"
  /\ dirs' = CreatedDirs(KeyLock)
  /\ IF HeldByOther(t, CreatedIno(KeyLock), {"EX", "SH"})
       THEN Failed(t)
       ELSE /\ th' = [th EXCEPT ![t].fd = CreatedIno(KeyLock), ![t].pc = "createPrimaryKey"]
            /\ res' = res
            /\ locks' = locks \cup {[t |-> t, ino |-> CreatedIno(KeyLock), mode |-> "EX"]}
  /\ UNCHANGED <<files, mem, saved, pending, budget, hist, call>>

\* createPrimaryKey: generateSalt, and writeFile(s.saltFile): the file is
\* made, or truncated, with no byte in it ...
createPrimaryKey(t) ==
  /\ th[t].pc = "createPrimaryKey"
  /\ dirs' = [dirs EXCEPT !["keys"].exists = TRUE, !["keys"].salt = ShortSalt]
  /\ th' = [th EXCEPT ![t].npk = deriveKeyFromPassword(th[t].pw, FreshSalt).key,
                      ![t].pc = "createPrimaryKeyWrite"]
  /\ UNCHANGED <<files, locks, mem, res, saved, pending, budget, hist, call>>

\* ... then the salt is written, and deriveKeyFromPassword gives
\* s.primaryKey.
createPrimaryKeyWrite(t) ==
  /\ th[t].pc = "createPrimaryKeyWrite"
  /\ dirs' = [dirs EXCEPT !["keys"].exists = TRUE, !["keys"].salt = th[t].npk.salt]
  /\ th' = [th EXCEPT ![t].pc = "newKey"]
  /\ UNCHANGED <<files, locks, mem, res, saved, pending, budget, hist, call>>

\* newKey(0): a key is drawn and wrapped under s.primaryKey, and writeFile's
\* lock() makes the (empty) file key0.
newKey(t) ==
  /\ th[t].pc = "newKey"
  /\ dirs' = [dirs EXCEPT !["keys"].exists = TRUE,
                          !["keys"].keys = IF 0 \in DOMAIN @ THEN @ ELSE Put(@, 0, EmptyK)]
  /\ th' = [th EXCEPT ![t].key = FreshKey, ![t].nki = 0, ![t].pc = "newKeyWrite"]
  /\ UNCHANGED <<files, locks, mem, res, saved, pending, budget, hist, call>>

\* openExistingStore: rLock(s.lockFile) opens .keylock ...
openExistingStoreOpen(t) ==
  /\ th[t].pc = "openExistingStore"
  /\ IF rLockOpens(dirs)
       THEN /\ th' = [th EXCEPT ![t].fd = InoOf(KeyLock), ![t].pc = "rflock",
                                ![t].nxt = "getPrimaryKey"]
            /\ UNCHANGED <<locks, res>>
       ELSE Failed(t)
  /\ UNCHANGED <<dirs, files, mem, saved, pending, budget, hist, call>>

\* createPrimaryKey's writeFile holds the exclusive lock on the salt file
\* between the truncation and the write; readFile waits for it.
SaltWriteLocked == \E u \in Threads : th[u].pc = "createPrimaryKeyWrite"

\* ... and with the shared lock on .keylock held, getPrimaryKey:
\* readFile(s.saltFile), whose rLock opens the file, which must exist ...
getPrimaryKey(t) ==
  /\ th[t].pc = "getPrimaryKey"
  /\ IF StoreOf(t).saltFile /\ dirs["keys"].exists /\ dirs["keys"].salt # 0
       THEN /\ th' = [th EXCEPT ![t].pc = "getPrimaryKeyRead"]
            /\ UNCHANGED <<locks, res>>
       ELSE Failed(t)
  /\ UNCHANGED <<dirs, files, mem, saved, pending, budget, hist, call>>

\* ... readFile waits for the shared lock on the salt file, os.ReadFile
\* reads the path, the lock is released, and deriveKeyFromPassword gives
\* s.primaryKey.  loadCurrentKey follows, step by step.
getPrimaryKeyRead(t) ==
  /\ th[t].pc = "getPrimaryKeyRead"
  /\ ~SaltWriteLocked
  /\ LET kd == dirs["keys"]
         pk == deriveKeyFromPassword(th[t].pw, kd.salt)
     IN IF kd.exists /\ kd.salt # 0 /\ pk.ok
          THEN /\ th' = [th EXCEPT ![t].st.pk = pk.key, ![t].pc = "loadCurrentKey"]
               /\ UNCHANGED <<locks, res>>
          ELSE Failed(t)
  /\ UNCHANGED <<dirs, files, mem, saved, pending, budget, hist, call>>

\* After loadCurrentKey: os.Stat(s.dir), os.RemoveAll of .newpw, and the
\* deferred unlock.
openExistingStoreRemove(t) ==
  /\ th[t].pc = "openExistingStoreRemove"
  /\ dirs' = passwdCleanup(dirs)
  /\ th' = [th EXCEPT ![t].pc = "checkForOldKeys", ![t].fd = 0]
  /\ locks' = Unlocked(t)
  /\ UNCHANGED <<files, mem, res, saved, pending, budget, hist, call>>

\* checkForOldKeys: rLock(s.lockFile) opens .keylock again ...
checkForOldKeysOpen(t) ==
  /\ th[t].pc = "checkForOldKeys"
  /\ IF rLockOpens(dirs)
       THEN /\ th' = [th EXCEPT ![t].fd = InoOf(KeyLock), ![t].pc = "rflock",
                                ![t].nxt = "checkForOldKeysGlob"]
            /\ UNCHANGED <<locks, res>>
       ELSE Failed(t)
  /\ UNCHANGED <<dirs, files, mem, saved, pending, budget, hist, call>>

\* ... and with the shared lock held Glob lists the key files; after the
\* unlock, more than one of them starts a sweep on the Store that NewStore
\* is building.
checkForOldKeysGlob(t) ==
  /\ th[t].pc = "checkForOldKeysGlob"
  /\ th' = IF checkForOldKeys(dirs)
             THEN [th EXCEPT ![t].pc = "startRotateWatch", ![t].fd = 0,
                             ![t].sw = FreeSweep(ProcOf(t)),
                             ![FreeSweep(ProcOf(t))] = StartSweep]
             ELSE [th EXCEPT ![t].pc = "startRotateWatch", ![t].fd = 0]
  /\ locks' = Unlocked(t)
  /\ UNCHANGED <<dirs, files, mem, res, saved, pending, budget, hist, call>>

\* The goroutines of process P once the client has the Store of call t as
\* its handle: a sweep of the handle that the client held before keeps that
\* Store; the sweep that t started works on the new handle.
Returned(t, u) ==
  IF u = t \/ u = WatchOf(ProcOf(t)) THEN Idle
  ELSE IF ProcOf(u) = ProcOf(t) /\ th[u].op = "Sweep" /\ ~th[u].own /\ u # th[t].sw
    THEN [th[u] EXCEPT !.own = TRUE, !.st = mem[ProcOf(t)]]
  ELSE th[u]

\* The goroutines once call t has returned an error: the sweep that t
\* started keeps the Store it was given.
Dropped(t, u) ==
  IF u = t THEN Idle
  ELSE IF u = th[t].sw /\ th[u].op = "Sweep" /\ ~th[u].own
    THEN [th[u] EXCEPT !.own = TRUE, !.st = th[t].st]
  ELSE th[u]

\* startRotateWatch: the watch of s.keyDir is added (what was written before
\* is no event of it) and the watcher goroutine started; NewStore returns the
\* Store, which is the client's handle from now on.  Without the directory
\* NewStore returns an error and no Store.
startRotateWatch(t) ==
  LET P == ProcOf(t) IN
  /\ th[t].pc = "startRotateWatch"
  /\ IF dirs["keys"].exists
       THEN /\ mem' = [mem EXCEPT ![P] = [th[t].st EXCEPT !.made = TRUE]]
            /\ th' = [u \in Threads |-> Returned(t, u)]
            /\ res' = [res EXCEPT ![t] = Res("NewStore", "none", "ok")]
            /\ pending' = [pending EXCEPT ![P] = FALSE]
       ELSE /\ mem' = mem
            /\ th' = [u \in Threads |-> Dropped(t, u)]
            /\ res' = [res EXCEPT ![t] = Res("NewStore", "none", "err")]
            /\ pending' = pending
  /\ UNCHANGED <<dirs, files, locks, saved, budget, hist, call>>

\* Close: close(s.stopChan) unless it is closed already, then Wipe of
\* s.primaryKey and of s.currentKey, then the path fields dir, keyDir,
\* saltFile and curKeyIdxFile are set to "" one after the other.
\* s.currentKeyIndex and s.lockFile are left as they are.  Close does not
\* wait for the watcher or for a sweep, and nothing orders its writes with
\* their reads.
Close(t) ==
  /\ th[t].pc = "idle"
  /\ mem[ProcOf(t)].made
  /\ mem' = [mem EXCEPT ![ProcOf(t)].stop = TRUE]
  /\ th' = [th EXCEPT ![t] = [Idle EXCEPT !.pc = "WipeRandom", !.op = "Close",
                                         !.tgt = "primaryKey"]]
  /\ UNCHANGED <<dirs, files, locks, res, saved, pending, budget, hist, call>>

\* Wipe(data): rand.Read fills the bytes that the slice names with random
\* ones, which are the key of nothing ...
RandomPK == [pw |-> "rand", salt |-> FreshSalt]
WipeRandom(t) ==
  /\ th[t].pc = "WipeRandom"
  /\ IF th[t].tgt = "primaryKey"
       THEN /\ mem' = [mem EXCEPT ![ProcOf(t)].pk = RandomPK]
            /\ th' = [th EXCEPT ![t].npk = RandomPK, ![t].pc = "WipeZero"]
       ELSE /\ mem' = [mem EXCEPT ![ProcOf(t)].key = FreshKey]
            /\ th' = [th EXCEPT ![t].key = FreshKey, ![t].pc = "WipeZero"]
  /\ UNCHANGED <<dirs, files, locks, res, saved, pending, budget, hist, call>>

\* ... and the loop zeroes the same bytes; a slice that has been assigned
\* to the field since names other bytes, which are left.
WipeZero(t) ==
  /\ th[t].pc = "WipeZero"
  /\ LET P == ProcOf(t) IN
     IF th[t].tgt = "primaryKey"
       THEN /\ mem' = [mem EXCEPT ![P].pk = IF @ = th[t].npk THEN ZeroPK ELSE @]
            /\ th' = [th EXCEPT ![t].npk = ZeroPK, ![t].pc = "WipeRandom",
                                ![t].tgt = "currentKey"]
       ELSE /\ mem' = [mem EXCEPT ![P].key = IF @ = th[t].key THEN 0 ELSE @]
            /\ th' = [th EXCEPT ![t].key = 0, ![t].pc = "CloseClear", ![t].tgt = "dir"]
  /\ UNCHANGED <<dirs, files, locks, res, saved, pending, budget, hist, call>>

\* s.dir = "", s.keyDir = "", s.saltFile = "", s.curKeyIdxFile = "": one
\* assignment a step; after the last Close returns.
CloseClear(t) ==
  /\ th[t].pc = "CloseClear"
  /\ LET P == ProcOf(t) IN
     CASE th[t].tgt = "dir" ->
            /\ mem' = [mem EXCEPT ![P].dir = FALSE]
            /\ th' = [th EXCEPT ![t].tgt = "keyDir"]
            /\ res' = res
       [] th[t].tgt = "keyDir" ->
            /\ mem' = [mem EXCEPT ![P].keyDir = FALSE]
            /\ th' = [th EXCEPT ![t].tgt = "saltFile"]
            /\ res' = res
       [] th[t].tgt = "saltFile" ->
            /\ mem' = [mem EXCEPT ![P].saltFile = FALSE]
            /\ th' = [th EXCEPT ![t].tgt = "curKeyIdxFile"]
            /\ res' = res
       [] OTHER ->
            /\ mem' = [mem EXCEPT ![P].curKeyIdxFile = FALSE]
            /\ th' = [th EXCEPT ![t] = Idle]
            /\ res' = [res EXCEPT ![t] = Res("Close", "none", "ok")]
  /\ UNCHANGED <<dirs, files, locks, saved, pending, budget, hist, call>>

\* No sweep of process P is running.
SweepsIdle(P) == \A s \in SweepsOf(P) : th[s].pc = "idle"

\* rotateWatch's select takes the closed s.stopChan and returns.
rotateWatchStop(t) ==
  /\ t \in WatchThreads
  /\ th[t].pc = "idle"
  /\ mem[ProcOf(t)].made
  /\ mem[ProcOf(t)].stop
  /\ th' = [th EXCEPT ![t] = Stopped]
  /\ UNCHANGED <<dirs, files, locks, mem, res, saved, pending, budget, hist, call>>

(***************************************************************************)
(* Spec: one handle, one caller issuing Save, Load and Delete one after    *)
(* the other.                                                              *)
(***************************************************************************)
Init ==
  /\ \E c \in StartIdx : InitStore(c, {"A"})
  /\ budget = [t \in Threads |-> IF t = "A1" THEN Free ELSE NoBudget]

Next ==
  \/ \E p \in Paths, d \in Data : Save("A1", p, d)
  \/ \E p \in Paths : Load("A1", p)
  \/ \E p \in Paths : Delete("A1", p)
  \/ encryptDataKey("A1")
  \/ encryptDataIdx("A1")
  \/ lockStat("A1")
  \/ lockOpen("A1")
  \/ flock("A1")
  \/ rLockFlock("A1")
  \/ writeFileTrunc("A1")
  \/ writeFileWrite("A1")
  \/ readFileRead("A1")
  \/ decryptDataIndex("A1")
  \/ decryptDataCurrent("A1")
  \/ DeleteRemove("A1")

Spec == Init /\ [][Next]_vars

\* C1: a Load that follows a successful Save on its path (no Delete of the
\* path in between) returns exactly the bytes of the most recent such Save,
\* as a non-nil byte sequence, the empty one included.
C1_RoundTrip ==
  \A t \in ApiThreads :
    (res[t].op = "Load" /\ saved[res[t].path].has)
      => (res[t].st = "ok" /\ res[t].val = saved[res[t].path].val /\ ~res[t].nil)

\* An empty secret that overwrote an earlier one has been loaded.
C1_Witness ==
  /\ res["A1"].op = "Load" /\ res["A1"].st = "ok"
  /\ saved[res["A1"].path].over /\ saved[res["A1"].path].val = <<>>

(***************************************************************************)
(* SpecRot: one process.  Caller A1 saves, loads and rotates, caller A2    *)
(* saves and loads, and the sweep that Rotate starts runs beside them.     *)
(* The store starts with one secret saved.                                 *)
(***************************************************************************)
RotPaths == {"p1"}
RotData == {<<2>>}
Limited(ops, rot) == Limit(ops, rot, 0, 0)

InitSaved(c, open) ==
  /\ dirs = [d \in DirNames |-> IF d = "keys" THEN StoreDir(c, "pw0") ELSE NoDir]
  /\ files = Put([x \in {} |-> 0], "p1", [ino |-> 2, c |-> Frame(c, 1, <<1>>)])
  /\ locks = {}
  /\ mem = [P \in Procs |-> IF P \in open THEN OpenMem(c, "pw0") ELSE ClosedMem]
  /\ th = [t \in Threads |-> Idle]
  /\ res = [t \in Threads |-> NoRes]
  /\ saved = [p \in Paths |-> IF p = "p1" THEN [has |-> TRUE, val |-> <<1>>, over |-> FALSE]
                                           ELSE NoSaved]
  /\ pending = [P \in Procs |-> FALSE]
  /\ hist = [NoHist EXCEPT !.vals["p1"] = {<<1>>}]
  /\ call = NoCall

InitRot ==
  /\ InitSaved(IdxMod - 1, {"A"})
  /\ budget = [t \in Threads |->
       IF t = "A1" THEN Limited(MaxOps - 1, MaxRot)
       ELSE IF t = "A2" THEN Limited(MaxOps, 0)
       ELSE NoBudget]

RotThreads == {"A1", "A2", "As", "As2"}

NextRot ==
  \/ \E t \in {"A1", "A2"}, p \in RotPaths, d \in RotData : Save(t, p, d)
  \/ \E t \in {"A1", "A2"}, p \in RotPaths : Load(t, p)
  \/ Rotate("A1")
  \/ \E t \in RotThreads :
       \/ encryptDataKey(t)
       \/ encryptDataIdx(t)
       \/ lockStat(t)
       \/ lockOpen(t)
       \/ flock(t)
       \/ rLockFlock(t)
       \/ writeFileTrunc(t)
       \/ writeFileWrite(t)
       \/ readFileRead(t)
       \/ decryptDataIndex(t)
       \/ decryptDataCurrent(t)
       \/ decryptDataLoadKey(t)
       \/ loadKeyRead(t)
       \/ loadKeyUnwrap(t)
       \/ RotateCheck(t)
       \/ newKeyWrite(t)
       \/ RotateSetKey(t)
       \/ RotateSetIdx(t)
       \/ saveCurrentKeyIndexTrunc(t)
       \/ saveCurrentKeyIndexWrite(t)
       \/ RotateDone(t)
       \/ updateFiles(t)
       \/ reencryptFileRead(t)
       \/ reencryptFileRemove(t)
       \/ reencryptFileIndex(t)
       \/ reencryptFileWrite(t)
       \/ updateFilesCheck(t)
       \/ listDataFilesWalk(t)
       \/ listDataFilesReadDir(t)
       \/ listDataFilesLstat(t)
       \/ getKeyIndex(t)
       \/ getKeyIndexRead(t)
       \/ updateFilesCleanup(t)
       \/ updateFilesRemove(t)

SpecRot == InitRot /\ [][NextRot]_vars

\* C2: a secret saved before Rotate was called, and neither saved nor
\* deleted since, is returned by every Load that starts after Rotate
\* returned: no error, no other bytes.
C2_RotationTransparent ==
  \A t \in ApiThreads :
    (res[t].op = "Load" /\ res[t].post /\ hist.pre[res[t].path].has)
      => (res[t].st = "ok" /\ res[t].val = hist.pre[res[t].path].val)

\* C3: every data file that no Save, Delete or sweep step is working on is a
\* frame of at least one byte whose first byte names a key file on disk.
Busy(p) == \E t \in Threads : th[t].pc # "idle" /\ th[t].path = p
C3_FramesNameKeys ==
  \A p \in DOMAIN files :
    ~Busy(p) => (files[p].c.len >= 1 /\ files[p].c.idx \in DOMAIN dirs["keys"].keys)

\* C7: a Load of a path that held a saved secret when the Load started (and
\* that is never deleted) reads, under its shared lock, a whole frame that
\* seals one of the values saved to the path: never an empty or partial one.
C7_SaveAtomic ==
  \A t \in ApiThreads :
    (th[t].op = "Load" /\ th[t].pc = "decryptData" /\ th[t].had)
      => (th[t].fr.len >= 1 + NonceSize + TagSize /\ th[t].fr.pt \in hist.vals[th[t].path])

(***************************************************************************)
(* SpecCrash: one process, one secret saved.  The caller rotates and       *)
(* loads, the process is killed at some point of the rotation or of its    *)
(* sweep, and the store is opened again with its password.                 *)
(***************************************************************************)
InitCrash ==
  /\ InitSaved(IdxMod - 1, {"A"})
  /\ budget = [t \in Threads |-> IF t = "A1" THEN Limit(MaxOps, MaxRot, 0, MaxCrash) ELSE NoBudget]

CrashThreads == {"A1", "As", "As2"}

NextCrash ==
  \/ \E p \in RotPaths : Load("A1", p)
  \/ Rotate("A1")
  \/ Crash("A1")
  \/ NewStore("A1", "pw0")
  \/ \E t \in CrashThreads :
       \/ encryptDataKey(t)
       \/ encryptDataIdx(t)
       \/ checkNewStoreStatDir(t)
       \/ checkNewStoreStatKeyDir(t)
       \/ checkNewStoreStatSalt(t)
       \/ checkNewStoreReadCur(t)
       \/ checkNewStoreStatKey(t)
       \/ openExistingStoreOpen(t)
       \/ getPrimaryKey(t)
       \/ getPrimaryKeyRead(t)
       \/ loadCurrentKey(t)
       \/ loadCurrentKeyRead(t)
       \/ loadCurrentKeyIndex(t)
       \/ loadCurrentKeyLoad(t)
       \/ loadCurrentKeySet(t)
       \/ openExistingStoreRemove(t)
       \/ checkForOldKeysOpen(t)
       \/ checkForOldKeysGlob(t)
       \/ startRotateWatch(t)
       \/ lockStat(t)
       \/ lockOpen(t)
       \/ flock(t)
       \/ rLockFlock(t)
       \/ readFileRead(t)
       \/ decryptDataIndex(t)
       \/ decryptDataCurrent(t)
       \/ decryptDataLoadKey(t)
       \/ loadKeyRead(t)
       \/ loadKeyUnwrap(t)
       \/ RotateCheck(t)
       \/ newKeyWrite(t)
       \/ RotateSetKey(t)
       \/ RotateSetIdx(t)
       \/ saveCurrentKeyIndexTrunc(t)
       \/ saveCurrentKeyIndexWrite(t)
       \/ RotateDone(t)
       \/ updateFiles(t)
       \/ reencryptFileRead(t)
       \/ reencryptFileIndex(t)
       \/ reencryptFileWrite(t)
       \/ updateFilesCheck(t)
       \/ listDataFilesWalk(t)
       \/ listDataFilesReadDir(t)
       \/ listDataFilesLstat(t)
       \/ getKeyIndex(t)
       \/ getKeyIndexRead(t)
       \/ updateFilesCleanup(t)
       \/ updateFilesRemove(t)

SpecCrash == InitCrash /\ [][NextCrash]_vars

\* C6: after the process was killed during Rotate or its sweep, NewStore
\* with the store's password succeeds, and every Load that follows returns
\* the secret's last saved value.
C6_RotateCrashTolerant ==
  \A t \in ApiThreads :
    /\ res[t].op = "NewStore" => res[t].st = "ok"
    /\ (res[t].op = "Load" /\ hist.crashAt = "run" /\ saved[res[t].path].has)
         => (res[t].st = "ok" /\ res[t].val = saved[res[t].path].val)

(***************************************************************************)
(* SpecPasswd: one process.  The store holds two keys (a rotation whose    *)
(* old key has not been cleaned up) and one secret under the current key;  *)
(* NewStore has just opened it and started the sweep, which has created    *)
(* its temp directory and listed the data files.  Caller A1 changes the    *)
(* password and loads, the process is killed at some point, and the store  *)
(* is opened again with the old or the new password.                       *)
(***************************************************************************)
OldPw == "pw0"
NewPw == "pw1"

InitPasswd ==
  /\ dirs = [d \in DirNames |->
       IF d = "keys"
         THEN [StoreDir(0, OldPw) EXCEPT
                 !.keys = Put(@, IdxMod - 1, encryptKey(2, deriveKeyFromPassword(OldPw, 1).key)),
                 !.tmp = TRUE]
         ELSE NoDir]
  /\ files = Put([x \in {} |-> 0], "p1", [ino |-> 2, c |-> Frame(0, 1, <<1>>)])
  /\ locks = {}
  /\ mem = [P \in Procs |-> IF P = "A" THEN OpenMem(0, OldPw) ELSE ClosedMem]
  /\ th = [t \in Threads |->
       IF t = "As" THEN NextFile([Idle EXCEPT !.todoF = {"p1"}]) ELSE Idle]
  /\ res = [t \in Threads |-> NoRes]
  /\ saved = [p \in Paths |-> IF p = "p1" THEN [has |-> TRUE, val |-> <<1>>, over |-> FALSE]
                                           ELSE NoSaved]
  /\ pending = [P \in Procs |-> FALSE]
  /\ hist = [NoHist EXCEPT !.vals["p1"] = {<<1>>}]
  /\ call = NoCall
  /\ budget = [t \in Threads |->
       IF t = "A1" THEN Limit(MaxOps - 1, 0, MaxPw, MaxCrash) ELSE NoBudget]

NextPasswd ==
  \/ \E p \in RotPaths : Load("A1", p)
  \/ Passwd("A1", NewPw)
  \/ Crash("A1")
  \/ \E pw \in {OldPw, NewPw} : NewStore("A1", pw)
  \/ \E t \in RotThreads :
       \/ lockNB(t)
       \/ PasswdCopyDir(t)
       \/ PasswdCopyFiles(t)
       \/ PasswdSalt(t)
       \/ PasswdSaltWrite(t)
       \/ PasswdGlob(t)
       \/ PasswdRewrap(t)
       \/ PasswdRewrapKey(t)
       \/ PasswdRewrapTrunc(t)
       \/ PasswdRewrapWrite(t)
       \/ PasswdRename1(t)
       \/ PasswdRename2(t)
       \/ PasswdSetKey(t)
       \/ zeroOldKeys(t)
       \/ checkNewStoreStatDir(t)
       \/ checkNewStoreStatKeyDir(t)
       \/ checkNewStoreStatOld(t)
       \/ checkNewStoreRename(t)
       \/ checkNewStoreStatSalt(t)
       \/ checkNewStoreReadCur(t)
       \/ checkNewStoreStatKey(t)
       \/ openExistingStoreOpen(t)
       \/ getPrimaryKey(t)
       \/ getPrimaryKeyRead(t)
       \/ loadCurrentKey(t)
       \/ loadCurrentKeyRead(t)
       \/ loadCurrentKeyIndex(t)
       \/ loadCurrentKeyLoad(t)
       \/ loadKeyRead(t)
       \/ loadKeyUnwrap(t)
       \/ loadCurrentKeySet(t)
       \/ openExistingStoreRemove(t)
       \/ checkForOldKeysOpen(t)
       \/ checkForOldKeysGlob(t)
       \/ startRotateWatch(t)
       \/ lockStat(t)
       \/ lockOpen(t)
       \/ flock(t)
       \/ rLockFlock(t)
       \/ readFileRead(t)
       \/ decryptDataIndex(t)
       \/ decryptDataCurrent(t)
       \/ updateFiles(t)
       \/ reencryptFileRead(t)
       \/ reencryptFileIndex(t)
       \/ updateFilesCheck(t)
       \/ listDataFilesWalk(t)
       \/ listDataFilesReadDir(t)
       \/ listDataFilesLstat(t)
       \/ getKeyIndex(t)
       \/ getKeyIndexRead(t)
       \/ updateFilesCleanup(t)
       \/ updateFilesRemove(t)

SpecPasswd == InitPasswd /\ [][NextPasswd]_vars

\* C5: once the process was killed inside Passwd, whatever the step, the
\* store on disk opens under the old or under the new password (the old one
\* when the kill fell between the two renames), and every Load after the
\* reopening returns the secret as saved.
Interrupted == hist.crashAt \notin {"none", "run"}
C5_PasswdInterruptible ==
  /\ (Interrupted /\ ~mem["A"].dir)
       => (\E pw \in {OldPw, NewPw} : NewStoreResult(pw).ok)
  /\ (hist.crashAt = "PasswdRename2" /\ ~mem["A"].dir) => NewStoreResult(OldPw).ok
  /\ \A t \in ApiThreads :
       (Interrupted /\ res[t].op = "Load" /\ saved[res[t].path].has)
         => (res[t].st = "ok" /\ res[t].val = saved[res[t].path].val)

(***************************************************************************)
(* SpecLock: one process, no secrets.  Caller A1 changes the password      *)
(* while caller A2 rotates; the sweep runs beside them.                    *)
(***************************************************************************)
InitLock ==
  /\ InitStore(0, {"A"})
  /\ budget = [t \in Threads |->
       IF t = "A1" THEN Limit(0, 0, MaxPw, 0)
       ELSE IF t = "A2" THEN Limit(0, MaxRot, 0, 0)
       ELSE NoBudget]

NextLock ==
  \/ Passwd("A1", NewPw)
  \/ Rotate("A2")
  \/ \E t \in RotThreads :
       \/ lockNB(t)
       \/ PasswdCopyDir(t)
       \/ PasswdCopyFiles(t)
       \/ PasswdSalt(t)
       \/ PasswdSaltWrite(t)
       \/ PasswdGlob(t)
       \/ PasswdRewrap(t)
       \/ PasswdRewrapKey(t)
       \/ PasswdRewrapTrunc(t)
       \/ PasswdRewrapWrite(t)
       \/ PasswdRename1(t)
       \/ PasswdRename2(t)
       \/ PasswdSetKey(t)
       \/ zeroOldKeys(t)
       \/ lockStat(t)
       \/ lockOpen(t)
       \/ flock(t)
       \/ RotateCheck(t)
       \/ newKeyWrite(t)
       \/ RotateSetKey(t)
       \/ RotateSetIdx(t)
       \/ saveCurrentKeyIndexTrunc(t)
       \/ saveCurrentKeyIndexWrite(t)
       \/ RotateDone(t)
       \/ updateFiles(t)
       \/ updateFilesCheck(t)
       \/ listDataFilesWalk(t)
       \/ listDataFilesReadDir(t)
       \/ listDataFilesLstat(t)
       \/ updateFilesCleanup(t)
       \/ updateFilesRemove(t)

SpecLock == InitLock /\ [][NextLock]_vars

\* The sections that run holding the exclusive lock on .keylock.
InLocked(t) ==
  \/ th[t].op = "Passwd" /\ th[t].pc \notin {"idle", "lockNB"}
  \/ th[t].op = "Rotate" /\ th[t].pc \notin {"idle", "lockStat", "lockOpen", "flock"}
  \/ th[t].op = "Sweep" /\ th[t].pc \in {"updateFilesCleanup", "updateFilesRemove"}

\* C8: no two of Passwd, Rotate and the sweep's key cleanup are inside their
\* locked sections at the same time.
C8_KeyLockSerializes ==
  \A t, u \in Threads : (t # u /\ InLocked(t)) => ~InLocked(u)

(***************************************************************************)
(* SpecPeer: two processes hold the store open, each with its watcher and  *)
(* its sweep.  No secrets are stored; each process rotates.                *)
(***************************************************************************)
InitPeer ==
  /\ InitStore(IdxMod - 1, {"A", "B"})
  /\ budget = [t \in Threads |-> IF t \in {"A1", "B1"} THEN Limit(0, MaxRot, 0, 0) ELSE NoBudget]

PeerThreads == {"A1", "B1", "As", "As2", "Bs", "Bs2", "Aw", "Bw"}

NextPeer ==
  \/ \E t \in {"A1", "B1"} : Rotate(t)
  \/ \E t \in PeerThreads :
       \/ lockStat(t)
       \/ lockOpen(t)
       \/ flock(t)
       \/ rLockFlock(t)
       \/ RotateCheck(t)
       \/ newKeyWrite(t)
       \/ RotateSetKey(t)
       \/ RotateSetIdx(t)
       \/ saveCurrentKeyIndexTrunc(t)
       \/ saveCurrentKeyIndexWrite(t)
       \/ RotateDone(t)
       \/ updateFiles(t)
       \/ updateFilesCheck(t)
       \/ listDataFilesWalk(t)
       \/ listDataFilesReadDir(t)
       \/ listDataFilesLstat(t)
       \/ updateFilesCleanup(t)
       \/ updateFilesRemove(t)
       \/ rotateWatch(t)
       \/ rotateWatchLock(t)
       \/ loadCurrentKey(t)
       \/ loadCurrentKeyRead(t)
       \/ loadCurrentKeyIndex(t)
       \/ loadCurrentKeyLoad(t)
       \/ loadKeyRead(t)
       \/ loadKeyUnwrap(t)
       \/ loadCurrentKeySet(t)
       \/ rotateWatchUnlock(t)

SpecPeer == InitPeer /\ [][NextPeer]_vars

\* C4: whenever the key directory exists and no write of currentkey is
\* under way, currentkey holds one byte c and key<c> exists and unwraps
\* under the primary key of the store's password and the salt on disk.
CurrentKeyValid ==
  LET kd == dirs["keys"] IN
  /\ kd.cur.exists /\ Len(kd.cur.bytes) = 1
  /\ kd.cur.bytes[1] \in DOMAIN kd.keys
  /\ loadKeyFromPath(deriveKeyFromPassword(OldPw, kd.salt).key, kd.keys[kd.cur.bytes[1]]).ok
C4_CurrentKeyValid == (dirs["keys"].exists /\ ~CurWriteLocked) => CurrentKeyValid

\* C10: once a Rotate has returned and every goroutine has come to rest
\* with no watcher event queued, the key directory holds the one key that
\* currentkey names and every data file carries that index.
Quiescent ==
  /\ \A t \in Threads : th[t].pc \in {"idle", "stopped"}
  /\ \A P \in Procs : mem[P].dir => ~pending[P]
Steady ==
  LET kd == dirs["keys"] IN
  /\ kd.cur.exists /\ Len(kd.cur.bytes) = 1
  /\ DOMAIN kd.keys = {kd.cur.bytes[1]}
  /\ \A p \in DOMAIN files : files[p].c.len >= 1 /\ files[p].c.idx = kd.cur.bytes[1]
C10_EventuallySteady == (hist.rotated /\ Quiescent) => Steady

(***************************************************************************)
(* SpecPath: one Save, Load or Delete call with a caller-supplied path of  *)
(* up to MaxPathLen characters.                                            *)
(***************************************************************************)
InitPath ==
  /\ InitStore(0, {"A"})
  /\ budget = [t \in Threads |-> NoBudget]

NextPath ==
  \E arg \in PathsUpTo(MaxPathLen) :
    \/ SaveCall(arg)
    \/ LoadCall(arg)
    \/ DeleteCall(arg)

SpecPath == InitPath /\ [][NextPath]_vars

\* C9: a call whose cleaned join with the root is not strictly inside the
\* root (it lacks the prefix root + "/") leaves the tree as it was.
Inside(full) == HasPrefix(full, storeDir \o <<"/">>)
C9_OutsideLeavesTree ==
  (call.op # "none" /\ ~Inside(call.full)) => call.tree = call.before

(***************************************************************************)
(* SpecAttach: a directory that holds no store yet, and one client with    *)
(* two handles on it, A and B, both under the same password.  The client   *)
(* opens, closes, saves, loads and deletes through either handle, one call *)
(* at a time.                                                              *)
(***************************************************************************)
NoDisk == [d \in DirNames |-> NoDir]

InitAttach ==
  /\ dirs = NoDisk
  /\ files = [x \in {} |-> 0]
  /\ locks = {}
  /\ mem = [P \in Procs |-> ClosedMem]
  /\ th = [t \in Threads |-> Idle]
  /\ res = [t \in Threads |-> NoRes]
  /\ saved = [p \in Paths |-> NoSaved]
  /\ pending = [P \in Procs |-> FALSE]
  /\ hist = NoHist
  /\ call = NoCall
  /\ budget = [t \in Threads |-> IF t \in {"A1", "B1"} THEN Free ELSE NoBudget]

AtRest == \A t \in Threads : th[t].pc \in {"idle", "stopped"}

NextAttach ==
  \/ \E t \in {"A1", "B1"} : AtRest /\ NewStore(t, OldPw)
  \/ \E t \in {"A1", "B1"} : AtRest /\ Close(t)
  \/ \E t \in {"A1", "B1"} : WipeRandom(t)
  \/ \E t \in {"A1", "B1"} : WipeZero(t)
  \/ \E t \in {"A1", "B1"} : CloseClear(t)
  \/ \E t \in {"A1", "B1"}, d \in Data : AtRest /\ Save(t, "p1", d)
  \/ \E t \in {"A1", "B1"} : AtRest /\ Load(t, "p1")
  \/ \E t \in {"A1", "B1"} : AtRest /\ Delete(t, "p1")
  \/ \E t \in {"A1", "B1"} :
       \/ encryptDataKey(t)
       \/ encryptDataIdx(t)
       \/ checkNewStoreStatDir(t)
       \/ checkNewStoreStatKeyDir(t)
       \/ checkNewStoreStatOld(t)
       \/ checkNewStoreReadDir(t)
       \/ checkNewStoreStatSalt(t)
       \/ checkNewStoreReadCur(t)
       \/ checkNewStoreStatKey(t)
       \/ createNewStoreLock(t)
       \/ createPrimaryKey(t)
       \/ createPrimaryKeyWrite(t)
       \/ newKey(t)
       \/ newKeyWrite(t)
       \/ saveCurrentKeyIndexTrunc(t)
       \/ saveCurrentKeyIndexWrite(t)
       \/ openExistingStoreOpen(t)
       \/ getPrimaryKey(t)
       \/ getPrimaryKeyRead(t)
       \/ loadCurrentKey(t)
       \/ loadCurrentKeyRead(t)
       \/ loadCurrentKeyIndex(t)
       \/ loadCurrentKeyLoad(t)
       \/ loadKeyRead(t)
       \/ loadKeyUnwrap(t)
       \/ loadCurrentKeySet(t)
       \/ openExistingStoreRemove(t)
       \/ checkForOldKeysOpen(t)
       \/ checkForOldKeysGlob(t)
       \/ startRotateWatch(t)
       \/ lockStat(t)
       \/ lockOpen(t)
       \/ flock(t)
       \/ rLockFlock(t)
       \/ writeFileTrunc(t)
       \/ writeFileWrite(t)
       \/ readFileRead(t)
       \/ decryptDataIndex(t)
       \/ decryptDataCurrent(t)
       \/ DeleteRemove(t)

SpecAttach == InitAttach /\ [][NextAttach]_vars

\* C11: with a secret saved through either handle, the file is there for a
\* Load through the other handle, whether that handle was opened before or
\* after the saving one was closed, and the Load returns the bytes saved.
C11_HandlesShareSecrets ==
  /\ \A p \in Paths : (AtRest /\ saved[p].has) => p \in DOMAIN files
  /\ \A t \in ApiThreads :
       (th[t].op = "Load" /\ saved[th[t].path].has)
         => /\ th[t].path \in DOMAIN files
            /\ th[t].pc = "decryptData" =>
                 LET r == decryptData(mem[ProcOf(t)], dirs["keys"], th[t].fr)
                 IN r.st = "ok" /\ r.val = saved[th[t].path].val

\* Handle B, opened on the store that A created and has closed since, is
\* about to decrypt the secret that A saved.
C11_Witness ==
  /\ th["B1"].op = "Load" /\ th["B1"].pc = "decryptData"
  /\ saved["p1"].has /\ saved["p1"].val = <<1>>
  /\ res["A1"].op = "Close" /\ ~mem["A"].dir
  /\ res["B1"].op = "NewStore"

(***************************************************************************)
(* SpecClient: one process and one client that uses its handle one call at *)
(* a time, each call once the sweep and the watcher have come to rest:     *)
(* Save, Load, Delete, Rotate, Passwd, Close and NewStore under the old or *)
(* the new password.  The store starts with one secret saved.  The         *)
(* client's Passwd calls take the new and the old password in turn.        *)
(***************************************************************************)
InitClient ==
  /\ \E c \in StartIdx : InitSaved(c, {"A"})
  /\ budget = [t \in Threads |->
       IF t = "A1" THEN Limit(MaxOps, MaxRot, MaxPw + 1, 0) ELSE NoBudget]

ClientThreads == {"A1", "As", "As2", "Aw"}

\* The Passwd calls made so far, the password of the next one and of the
\* last one.
PwCalls == (MaxPw + 1) - budget["A1"].pw
NextPw == IF PwCalls % 2 = 0 THEN NewPw ELSE OldPw
LastPw == IF PwCalls % 2 = 0 THEN OldPw ELSE NewPw

\* The client calls Rotate on a handle it has not closed.
NextClient ==
  \/ \E p \in Paths, d \in RotData : Quiescent /\ Save("A1", p, d)
  \/ \E p \in Paths : Quiescent /\ Load("A1", p)
  \/ \E p \in Paths : Quiescent /\ Delete("A1", p)
  \/ Quiescent /\ mem["A"].dir /\ Rotate("A1")
  \/ Quiescent /\ Passwd("A1", NextPw)
  \/ Quiescent /\ Close("A1")
  \/ WipeRandom("A1")
  \/ WipeZero("A1")
  \/ CloseClear("A1")
  \/ \E pw \in {OldPw, NewPw} : Quiescent /\ NewStore("A1", pw)
  \/ \E t \in ClientThreads :
       \/ encryptDataKey(t)
       \/ encryptDataIdx(t)
       \/ checkNewStoreStatDir(t)
       \/ checkNewStoreStatKeyDir(t)
       \/ checkNewStoreStatSalt(t)
       \/ checkNewStoreReadCur(t)
       \/ checkNewStoreStatKey(t)
       \/ openExistingStoreOpen(t)
       \/ getPrimaryKey(t)
       \/ getPrimaryKeyRead(t)
       \/ openExistingStoreRemove(t)
       \/ checkForOldKeysOpen(t)
       \/ checkForOldKeysGlob(t)
       \/ startRotateWatch(t)
       \/ lockStat(t)
       \/ lockOpen(t)
       \/ flock(t)
       \/ rLockFlock(t)
       \/ writeFileTrunc(t)
       \/ writeFileWrite(t)
       \/ readFileRead(t)
       \/ decryptDataIndex(t)
       \/ decryptDataCurrent(t)
       \/ decryptDataLoadKey(t)
       \/ loadKeyRead(t)
       \/ loadKeyUnwrap(t)
       \/ DeleteRemove(t)
       \/ RotateCheck(t)
       \/ newKeyWrite(t)
       \/ RotateSetKey(t)
       \/ RotateSetIdx(t)
       \/ saveCurrentKeyIndexTrunc(t)
       \/ saveCurrentKeyIndexWrite(t)
       \/ RotateDone(t)
       \/ updateFiles(t)
       \/ reencryptFileRead(t)
       \/ reencryptFileIndex(t)
       \/ reencryptFileWrite(t)
       \/ updateFilesCheck(t)
       \/ listDataFilesWalk(t)
       \/ listDataFilesReadDir(t)
       \/ listDataFilesLstat(t)
       \/ getKeyIndex(t)
       \/ getKeyIndexRead(t)
       \/ updateFilesCleanup(t)
       \/ updateFilesRemove(t)
       \/ rotateWatch(t)
       \/ rotateWatchLock(t)
       \/ loadCurrentKey(t)
       \/ loadCurrentKeyRead(t)
       \/ loadCurrentKeyIndex(t)
       \/ loadCurrentKeyLoad(t)
       \/ loadCurrentKeySet(t)
       \/ rotateWatchUnlock(t)
       \/ lockNB(t)
       \/ PasswdCopyDir(t)
       \/ PasswdCopyFiles(t)
       \/ PasswdSalt(t)
       \/ PasswdSaltWrite(t)
       \/ PasswdGlob(t)
       \/ PasswdRewrap(t)
       \/ PasswdRewrapKey(t)
       \/ PasswdRewrapTrunc(t)
       \/ PasswdRewrapWrite(t)
       \/ PasswdRename1(t)
       \/ PasswdRename2(t)
       \/ PasswdSetKey(t)
       \/ zeroOldKeys(t)

SpecClient == InitClient /\ [][NextClient]_vars

\* What a handle opened now under password pw loads from path p.
Reopened(pw, p) ==
  LET o == NewStoreResult(pw) IN
  IF ~o.ok \/ p \notin DOMAIN files THEN DecErr
  ELSE decryptData(o.mem, o.dirs["keys"], files[p].c)

\* C12: once Passwd has returned success, with the store at rest: NewStore
\* under the new password succeeds and loads every secret as saved, NewStore
\* under the old password fails; and every Save, Rotate and Passwd the
\* handle is asked for afterwards succeeds, every Load returns the secret.
C12_PasswdRoundTrip ==
  /\ (res["A1"].op = "Passwd" /\ res["A1"].st = "ok" /\ Quiescent)
       => /\ NewStoreResult(LastPw).ok
          /\ \A pw \in {OldPw, NewPw} \ {LastPw} : ~NewStoreResult(pw).ok
          /\ \A p \in Paths : saved[p].has =>
               (Reopened(LastPw, p).st = "ok" /\ Reopened(LastPw, p).val = saved[p].val)
  /\ PwCalls > 0 =>
       /\ res["A1"].op \in {"Save", "Rotate", "Passwd"} => res["A1"].st = "ok"
       /\ (res["A1"].op = "Load" /\ saved[res["A1"].path].has)
            => (res["A1"].st = "ok" /\ res["A1"].val = saved[res["A1"].path].val)

\* The second Passwd of a handle has returned success, after a rotation,
\* with a secret saved.
C12_Witness ==
  /\ res["A1"].op = "Passwd" /\ res["A1"].st = "ok" /\ Quiescent
  /\ PwCalls = 2 /\ hist.rotated /\ mem["A"].dir
  /\ \E p \in Paths : saved[p].has

(***************************************************************************)
(* SpecOpen: a store on disk under the old password that no process holds  *)
(* open, with one secret; it may hold the key before the current one as    *)
(* well, left by a sweep that did not finish, and the secret may still be  *)
(* sealed under that key.  The process that held it may have been killed   *)
(* in Passwd between the two renames: then the key directory is            *)
(* .secretskeys.oldpw, and .secretskeys.newpw holds the copy with the new  *)
(* salt and the keys wrapped under the new password.  The client opens the *)
(* store with the right or with a wrong password, loads, and closes once   *)
(* the sweep is at rest.                                                   *)
(***************************************************************************)
PrevIndex(c) == (c + IdxMod - 1) % IdxMod

\* The key directory kd as PasswdCopyFiles, PasswdSalt and PasswdRewrap
\* leave its copy: a .keylock of its own, a new salt, and every key
\* wrapped under the key that the new password and the new salt give.
Rewrapped(kd) ==
  [kd EXCEPT !.salt = 2, !.lock = 3,
             !.keys = [i \in DOMAIN kd.keys |->
                         encryptKey(kd.keys[i].raw, deriveKeyFromPassword(NewPw, 2).key)]]

\* The disk after PasswdRename1 and before PasswdRename2.
MidPasswd(kd) ==
  [d \in DirNames |-> IF d = "keys" THEN NoDir ELSE IF d = "oldpw" THEN kd ELSE Rewrapped(kd)]

InitOpen ==
  \E c \in StartIdx, left \in BOOLEAN, fileOld \in BOOLEAN, mid \in BOOLEAN :
    /\ fileOld => left
    /\ LET kd == IF left
                   THEN [StoreDir(c, OldPw) EXCEPT
                           !.keys = Put(@, PrevIndex(c),
                                        encryptKey(2, deriveKeyFromPassword(OldPw, 1).key))]
                   ELSE StoreDir(c, OldPw)
       IN dirs = IF mid THEN MidPasswd(kd)
                 ELSE [d \in DirNames |-> IF d = "keys" THEN kd ELSE NoDir]
    /\ files = Put([x \in {} |-> 0], "p1",
                   [ino |-> 2, c |-> IF fileOld THEN Frame(PrevIndex(c), 2, <<1>>)
                                                ELSE Frame(c, 1, <<1>>)])
    /\ locks = {}
    /\ mem = [P \in Procs |-> ClosedMem]
    /\ th = [t \in Threads |-> Idle]
    /\ res = [t \in Threads |-> NoRes]
    /\ saved = [p \in Paths |-> IF p = "p1" THEN [has |-> TRUE, val |-> <<1>>, over |-> FALSE]
                                             ELSE NoSaved]
    /\ pending = [P \in Procs |-> FALSE]
    /\ hist = [NoHist EXCEPT !.vals["p1"] = {<<1>>}]
    /\ call = NoCall
    /\ budget = [t \in Threads |-> IF t = "A1" THEN Limit(MaxOps, 0, 0, 0) ELSE NoBudget]

NextOpen ==
  \/ \E pw \in {OldPw, NewPw} : NewStore("A1", pw)
  \/ SweepsIdle("A") /\ Close("A1")
  \/ WipeRandom("A1")
  \/ WipeZero("A1")
  \/ CloseClear("A1")
  \/ Load("A1", "p1")
  \/ \E t \in {"A1", "As"} :
       \/ checkNewStoreStatDir(t)
       \/ checkNewStoreStatKeyDir(t)
       \/ checkNewStoreStatOld(t)
       \/ checkNewStoreRename(t)
       \/ checkNewStoreStatSalt(t)
       \/ checkNewStoreReadCur(t)
       \/ checkNewStoreStatKey(t)
       \/ openExistingStoreOpen(t)
       \/ getPrimaryKey(t)
       \/ getPrimaryKeyRead(t)
       \/ loadCurrentKey(t)
       \/ loadCurrentKeyRead(t)
       \/ loadCurrentKeyIndex(t)
       \/ loadCurrentKeyLoad(t)
       \/ loadCurrentKeySet(t)
       \/ openExistingStoreRemove(t)
       \/ checkForOldKeysOpen(t)
       \/ checkForOldKeysGlob(t)
       \/ startRotateWatch(t)
       \/ lockStat(t)
       \/ lockOpen(t)
       \/ flock(t)
       \/ rLockFlock(t)
       \/ readFileRead(t)
       \/ decryptDataIndex(t)
       \/ decryptDataCurrent(t)
       \/ decryptDataLoadKey(t)
       \/ loadKeyRead(t)
       \/ loadKeyUnwrap(t)
       \/ encryptDataKey(t)
       \/ encryptDataIdx(t)
       \/ updateFiles(t)
       \/ reencryptFileRead(t)
       \/ reencryptFileIndex(t)
       \/ reencryptFileWrite(t)
       \/ updateFilesCheck(t)
       \/ listDataFilesWalk(t)
       \/ listDataFilesReadDir(t)
       \/ listDataFilesLstat(t)
       \/ getKeyIndex(t)
       \/ getKeyIndexRead(t)
       \/ updateFilesCleanup(t)
       \/ updateFilesRemove(t)

SpecOpen == InitOpen /\ [][NextOpen]_vars

\* A step of a NewStore call under the password that is not the store's.
OpensWrong ==
  \/ NewStore("A1", NewPw)
  \/ th["A1"].op = "NewStore" /\ th["A1"].pw = NewPw /\ th'["A1"] # th["A1"]

\* What such a call does apart from the disk: it takes no event, leaves the
\* handle that the client holds and every other goroutine as they are
\* (no sweep is started, no watcher), and it returns an error with none of
\* its locks held.
FailsClean ==
  /\ pending' = pending
  /\ mem' = mem
  /\ \A u \in Threads \ {"A1"} : th'[u] = th[u]
  /\ th'["A1"].pc = "idle" =>
       /\ res'["A1"].op = "NewStore" /\ res'["A1"].st = "err"
       /\ \A l \in locks' : l.t # "A1"

\* C13 as it was made: a NewStore on the store with a password
\* other than the store's returns an error and changes neither the key
\* directory nor a data file, starts no sweep, and leaves no watcher and no
\* lock behind.
C13_WrongPasswordLeavesStore ==
  [][OpensWrong => (UNCHANGED <<dirs, files>> /\ FailsClean)]_vars

\* os.Rename(oldDir, s.keyDir) of checkNewStore: the key directory that
\* Passwd had moved to .oldpw is back under its name, with every file in it
\* as it was; .newpw is as it was.
Restores ==
  /\ th["A1"].pc = "checkNewStoreRename"
  /\ ~dirs["keys"].exists /\ dirs["oldpw"].exists
  /\ dirs' = [dirs EXCEPT !["keys"] = dirs["oldpw"], !["oldpw"] = NoDir]

\* C13, amended: a NewStore on the store with a password other than the
\* store's returns an error, changes no data file and no file of the key
\* directory, starts no sweep, and leaves no watcher and no lock behind;
\* the one change it makes to the disk is to rename the key directory back
\* from .oldpw, where a Passwd that was killed between its renames left it.
C13_WrongPasswordRestoresOnly ==
  [][OpensWrong =>
       /\ files' = files
       /\ dirs' = dirs \/ Restores
       /\ FailsClean]_vars

\* An open under the wrong password has failed on a store that Passwd had
\* left as .oldpw: the key directory is back, with the two keys on which an
\* open under the right password starts the sweep, and .newpw is still
\* there (an open under the right password removes it).
C13_Witness ==
  /\ res["A1"].op = "NewStore" /\ res["A1"].st = "err"
  /\ th["A1"].pc = "idle"
  /\ ~mem["A"].made
  /\ dirs["keys"].exists /\ ~dirs["oldpw"].exists /\ dirs["newpw"].exists
  /\ checkForOldKeys(dirs)
  /\ th["As"].pc = "idle"

(***************************************************************************)
(* SpecWatch: processes A and B hold the store open.  B rotates while A's  *)
(* client is between calls; A's watcher takes the Write events on          *)
(* currentkey; A's client saves once the watcher has handled them.  Every  *)
(* goroutine that can take a step eventually takes one.                    *)
(***************************************************************************)
InitWatch ==
  /\ \E c \in StartIdx : InitSaved(c, {"A", "B"})
  /\ budget = [t \in Threads |->
       IF t = "A1" THEN Limit(MaxOps, 0, 0, 0)
       ELSE IF t = "B1" THEN Limit(0, MaxRot, 0, 0)
       ELSE NoBudget]

WatchSpecThreads == {"A1", "Aw", "B1", "Bs", "Bs2", "Bw"}

\* The watcher of A has handled every event and no rotation is under way.
Reloaded == ~pending["A"] /\ th["Aw"].pc = "idle" /\ th["B1"].pc = "idle"

\* One step of goroutine t.
Step(t) ==
  \/ encryptDataKey(t)
  \/ encryptDataIdx(t)
  \/ lockStat(t)
  \/ lockOpen(t)
  \/ flock(t)
  \/ rLockFlock(t)
  \/ writeFileTrunc(t)
  \/ writeFileWrite(t)
  \/ RotateCheck(t)
  \/ newKeyWrite(t)
  \/ RotateSetKey(t)
  \/ RotateSetIdx(t)
  \/ saveCurrentKeyIndexTrunc(t)
  \/ saveCurrentKeyIndexWrite(t)
  \/ RotateDone(t)
  \/ updateFiles(t)
  \/ reencryptFileRead(t)
  \/ reencryptFileRemove(t)
  \/ reencryptFileIndex(t)
  \/ decryptDataIndex(t)
  \/ decryptDataLoadKey(t)
  \/ loadKeyRead(t)
  \/ loadKeyUnwrap(t)
  \/ reencryptFileWrite(t)
  \/ updateFilesCheck(t)
  \/ listDataFilesWalk(t)
  \/ listDataFilesReadDir(t)
  \/ listDataFilesLstat(t)
  \/ getKeyIndex(t)
  \/ getKeyIndexRead(t)
  \/ updateFilesCleanup(t)
  \/ updateFilesRemove(t)
  \/ rotateWatch(t)
  \/ rotateWatchLock(t)
  \/ loadCurrentKey(t)
  \/ loadCurrentKeyRead(t)
  \/ loadCurrentKeyIndex(t)
  \/ loadCurrentKeyLoad(t)
  \/ loadCurrentKeySet(t)
  \/ rotateWatchUnlock(t)

NextWatch ==
  \/ \E d \in RotData : Reloaded /\ Save("A1", "p1", d)
  \/ th["A1"].pc = "idle" /\ Rotate("B1")
  \/ \E t \in WatchSpecThreads : Step(t)

SpecWatch ==
  InitWatch /\ [][NextWatch]_vars /\ \A t \in WatchSpecThreads : WF_vars(Step(t))

\* The Store struct of process P holds the index that currentkey holds and
\* the key that the key file of that index wraps.
MemMatchesDisk(P) ==
  LET kd == dirs["keys"] IN
  /\ kd.exists /\ kd.cur.exists /\ Len(kd.cur.bytes) = 1
  /\ mem[P].idx = kd.cur.bytes[1]
  /\ loadKey(mem[P], kd, mem[P].idx) = [ok |-> TRUE, key |-> mem[P].key]

\* C14: the watcher of A reloads holding a shared lock on .keylock; once B's
\* Rotate has returned, A comes to hold the index and the key on disk; and
\* the frame of a Save that A starts after that carries the index in
\* currentkey and is sealed under the key of that index.
C14_PeerRotationObserved ==
  /\ [](th["Aw"].pc \in {"loadCurrentKey", "loadCurrentKeyRead", "loadCurrentKeyIndex",
                          "loadCurrentKeyLoad", "loadKeyRead", "loadKeyUnwrap",
                          "loadCurrentKeySet", "rotateWatchUnlock"}
          => [t |-> "Aw", ino |-> dirs["keys"].lock, mode |-> "SH"] \in locks)
  /\ [](Reloaded => MemMatchesDisk("A"))
  /\ [](th["A1"].pc \in {"lockStat", "lockOpen", "flock", "writeFileTrunc", "writeFileWrite"}
          => /\ th["A1"].fr.idx = dirs["keys"].cur.bytes[1]
             /\ loadKey(mem["A"], dirs["keys"], th["A1"].fr.idx) = [ok |-> TRUE, key |-> th["A1"].fr.key])
  /\ (hist.rotated ~> (Reloaded /\ MemMatchesDisk("A")))

\* After B's Rotate from index 255, A is about to write a frame that
\* carries index 0.
C14_Witness ==
  /\ hist.rotated /\ res["B1"].op = "Rotate" /\ res["B1"].st = "ok"
  /\ th["A1"].op = "Save" /\ th["A1"].pc = "writeFileWrite"
  /\ th["A1"].fr.idx = 0 /\ dirs["keys"].cur = CurFile(0)


(***************************************************************************)
(* Rotate's outcome, for the client of SpecClient.                         *)
(***************************************************************************)
\* Rotate has returned success and the client has made no call since.
RotateReturned ==
  /\ th["A1"].pc = "idle"
  /\ res["A1"] = Res("Rotate", "none", "ok")

\* C15: a successful Rotate() from current index c leaves the in-memory
\* index and the byte in currentkey equal to (c + 1) mod 256, with the key
\* file of that index present and holding the in-memory current key; Rotate
\* returns right after the write of currentkey, at which point the sweep has
\* been started and has not taken a step.
C15_RotateAdvancesIndex ==
  /\ [](RotateReturned =>
          LET n == (hist.from + 1) % IdxMod
              m == mem["A"]
              kd == dirs["keys"]
          IN /\ m.dir /\ m.idx = n
             /\ kd.exists /\ kd.cur = CurFile(n)
             /\ n \in DOMAIN kd.keys
             /\ loadKey(m, kd, n) = [ok |-> TRUE, key |-> m.key])
  /\ [][(th["A1"].op = "Rotate" /\ th'["A1"].pc = "idle" /\ res'["A1"].st = "ok") =>
          /\ th["A1"].pc = "RotateDone"
          /\ th["As"].pc = "idle" /\ th'["As"].pc = "updateFiles"
          /\ UNCHANGED <<dirs, files, mem>>]_vars

\* Rotate has returned from index 255 while the secret on disk still carries
\* index 255: the sweep has not run.
C15_Witness ==
  /\ RotateReturned
  /\ hist.from = IdxMod - 1 /\ mem["A"].idx = 0
  /\ dirs["keys"].cur = CurFile(0)
  /\ th["As"].pc = "updateFiles"
  /\ \E p \in DOMAIN files : files[p].c.idx = IdxMod - 1


(***************************************************************************)
(* SpecFull: the client of SpecClient on a store whose key directory       *)
(* already holds a file for the successor index, left by a Rotate of a     *)
(* peer that was killed after it had created the key file (empty) or had   *)
(* written it, and before it wrote currentkey.  Closing and reopening the  *)
(* store starts the sweep that removes the leftover.                       *)
(***************************************************************************)
InitFull ==
  \E c \in StartIdx, k \in {EmptyK, encryptKey(2, deriveKeyFromPassword(OldPw, 1).key)} :
    /\ dirs = [d \in DirNames |->
         IF d = "keys" THEN [StoreDir(c, OldPw) EXCEPT !.keys = Put(@, NextIndex(c), k)]
                       ELSE NoDir]
    /\ files = Put([x \in {} |-> 0], "p1", [ino |-> 2, c |-> Frame(c, 1, <<1>>)])
    /\ locks = {}
    /\ mem = [P \in Procs |-> IF P = "A" THEN OpenMem(c, OldPw) ELSE ClosedMem]
    /\ th = [t \in Threads |-> Idle]
    /\ res = [t \in Threads |-> NoRes]
    /\ saved = [p \in Paths |-> IF p = "p1" THEN [has |-> TRUE, val |-> <<1>>, over |-> FALSE]
                                             ELSE NoSaved]
    /\ pending = [P \in Procs |-> FALSE]
    /\ hist = [NoHist EXCEPT !.vals["p1"] = {<<1>>}]
    /\ call = NoCall
    /\ budget = [t \in Threads |-> IF t = "A1" THEN Limit(MaxOps, MaxRot + 1, 0, 0) ELSE NoBudget]

\* The client calls Rotate on a handle it has not closed.
NextFull ==
  \/ \E d \in RotData : Quiescent /\ Save("A1", "p1", d)
  \/ Quiescent /\ Load("A1", "p1")
  \/ Quiescent /\ mem["A"].dir /\ Rotate("A1")
  \/ Quiescent /\ Close("A1")
  \/ WipeRandom("A1")
  \/ WipeZero("A1")
  \/ CloseClear("A1")
  \/ Quiescent /\ NewStore("A1", OldPw)
  \/ \E t \in ClientThreads :
       \/ encryptDataKey(t)
       \/ encryptDataIdx(t)
       \/ checkNewStoreStatDir(t)
       \/ checkNewStoreStatKeyDir(t)
       \/ checkNewStoreStatSalt(t)
       \/ checkNewStoreReadCur(t)
       \/ checkNewStoreStatKey(t)
       \/ openExistingStoreOpen(t)
       \/ getPrimaryKey(t)
       \/ getPrimaryKeyRead(t)
       \/ openExistingStoreRemove(t)
       \/ checkForOldKeysOpen(t)
       \/ checkForOldKeysGlob(t)
       \/ startRotateWatch(t)
       \/ lockStat(t)
       \/ lockOpen(t)
       \/ flock(t)
       \/ rLockFlock(t)
       \/ writeFileTrunc(t)
       \/ writeFileWrite(t)
       \/ readFileRead(t)
       \/ decryptDataIndex(t)
       \/ decryptDataCurrent(t)
       \/ decryptDataLoadKey(t)
       \/ loadKeyRead(t)
       \/ loadKeyUnwrap(t)
       \/ RotateCheck(t)
       \/ newKeyWrite(t)
       \/ RotateSetKey(t)
       \/ RotateSetIdx(t)
       \/ saveCurrentKeyIndexTrunc(t)
       \/ saveCurrentKeyIndexWrite(t)
       \/ RotateDone(t)
       \/ updateFiles(t)
       \/ reencryptFileRead(t)
       \/ reencryptFileIndex(t)
       \/ reencryptFileWrite(t)
       \/ updateFilesCheck(t)
       \/ listDataFilesWalk(t)
       \/ listDataFilesReadDir(t)
       \/ listDataFilesLstat(t)
       \/ getKeyIndex(t)
       \/ getKeyIndexRead(t)
       \/ updateFilesCleanup(t)
       \/ updateFilesRemove(t)
       \/ rotateWatch(t)
       \/ rotateWatchLock(t)
       \/ loadCurrentKey(t)
       \/ loadCurrentKeyRead(t)
       \/ loadCurrentKeyIndex(t)
       \/ loadCurrentKeyLoad(t)
       \/ loadCurrentKeySet(t)
       \/ rotateWatchUnlock(t)

SpecFull == InitFull /\ [][NextFull]_vars

\* The key file of the index that follows s.currentKeyIndex is on disk.
SuccessorExists ==
  dirs["keys"].exists /\ ((mem["A"].idx + 1) % IdxMod) \in DOMAIN dirs["keys"].keys

\* Rotate has been called and has not yet passed its check of the key file.
BeforeRotateCheck ==
  th["A1"].op = "Rotate" /\ th["A1"].pc \in {"lockStat", "lockOpen", "flock", "RotateCheck"}

\* C16: when the key file of the successor index exists, Rotate() returns an
\* error having changed nothing: the key directory (currentkey, key files),
\* the data files and the in-memory index and key are as before, and no
\* sweep is started.  Rotate fails only for that reason: once the key file
\* has been removed, it does not return an error.
C16_KeyspaceFull ==
  /\ [][(BeforeRotateCheck /\ SuccessorExists) =>
          /\ UNCHANGED <<dirs, files, mem>>
          /\ \A s \in SweepsOf("A") : th'[s] = th[s]
          /\ \/ BeforeRotateCheck'
             \/ /\ th'["A1"] = Idle
                /\ res'["A1"] = Res("Rotate", "none", "err")
                /\ locks' = {}]_vars
  /\ [][(th["A1"].op = "Rotate" /\ th'["A1"].pc = "idle" /\ res'["A1"].st = "err") =>
          SuccessorExists]_vars

\* Rotate failed on the leftover key file; the store was then reopened, the
\* sweep removed the leftover, and the second Rotate succeeded.
C16_Witness ==
  /\ RotateReturned
  /\ budget["A1"].rot = MaxRot - 1
  /\ dirs["keys"].cur = CurFile((hist.from + 1) % IdxMod)
  /\ \E c \in StartIdx : hist.from = c


\* C17: a Rotate() called while another holder has the lock on .keylock
\* returns an error instead of proceeding: such a call never gets past the
\* acquisition of the lock, so it changes neither currentkey, nor a key
\* file, nor the index and key in memory.
C17_RotateBusy ==
  \A t \in ApiThreads :
    (th[t].op = "Rotate" /\ th[t].busy) => th[t].pc \in {"lockStat", "lockOpen", "flock"}


(***************************************************************************)
(* SpecBusy: one process.  Its client calls Passwd with an empty or a      *)
(* non-empty password; between the client's calls another holder takes     *)
(* s.lock(s.lockFile) and releases it with unlock().                       *)
(***************************************************************************)
\* s.lock(s.lockFile) called from outside Rotate and the sweep.
Hold(t) ==
  /\ th[t].pc = "idle"
  /\ mem[ProcOf(t)].dir
  /\ Can(t, "ops")
  /\ budget' = Spend(t, "ops")
  /\ th' = [th EXCEPT ![t] = [Idle EXCEPT !.pc = "lockStat", !.op = "Hold",
                                         !.tgt = KeyLock, !.nxt = "held"]]
  /\ UNCHANGED <<dirs, files, locks, mem, res, saved, pending, hist, call>>

\* unlock(): flock(LOCK_UN) and Close.
unlock(t) ==
  /\ th[t].pc = "held"
  /\ locks' = Unlocked(t)
  /\ th' = [th EXCEPT ![t] = Idle]
  /\ res' = [res EXCEPT ![t] = Res("unlock", "none", "ok")]
  /\ UNCHANGED <<dirs, files, mem, saved, pending, budget, hist, call>>

InitBusy ==
  /\ InitSaved(0, {"A"})
  /\ budget = [t \in Threads |->
       IF t = "A1" THEN Limit(0, 0, MaxPw + 2, 0)
       ELSE IF t = "A2" THEN Limit(MaxOps, 0, 0, 0)
       ELSE NoBudget]

NextBusy ==
  \/ \E pw \in {"", NewPw} : th["A2"].pc \in {"idle", "held"} /\ Passwd("A1", pw)
  \/ th["A1"].pc = "idle" /\ Hold("A2")
  \/ unlock("A2")
  \/ \E t \in {"A1", "A2"} :
       \/ lockStat(t)
       \/ lockOpen(t)
       \/ flock(t)
       \/ lockNB(t)
       \/ PasswdCopyDir(t)
       \/ PasswdCopyFiles(t)
       \/ PasswdSalt(t)
       \/ PasswdSaltWrite(t)
       \/ PasswdGlob(t)
       \/ PasswdRewrap(t)
       \/ PasswdRewrapKey(t)
       \/ PasswdRewrapTrunc(t)
       \/ PasswdRewrapWrite(t)
       \/ PasswdRename1(t)
       \/ PasswdRename2(t)
       \/ PasswdSetKey(t)
       \/ zeroOldKeys(t)

SpecBusy == InitBusy /\ [][NextBusy]_vars

\* C18: Passwd returns an error having changed nothing (key directory, data
\* files, primary key in memory, locks, no .newpw directory) when the new
\* password is empty and when another holder has the lock on .keylock at the
\* non-blocking attempt; these are the only errors of a Passwd called while
\* nothing else runs, so a later call with the lock free succeeds.
C18_PasswdRefused ==
  /\ [][Passwd("A1", "") =>
          /\ res'["A1"] = Res("Passwd", "none", "err")
          /\ UNCHANGED <<dirs, files, locks, mem, th, pending>>]_vars
  /\ [][(th["A1"].pc = "lockNB" /\ th'["A1"] # th["A1"] /\ KeyLockHeld("A1")) =>
          /\ res'["A1"] = Res("Passwd", "none", "err")
          /\ th'["A1"] = Idle
          /\ UNCHANGED <<dirs, files, locks, mem, pending>>]_vars
  /\ [][(th["A1"].op = "Passwd" /\ th'["A1"].pc = "idle" /\ res'["A1"].st = "err") =>
          (th["A1"].pc = "lockNB" /\ KeyLockHeld("A1"))]_vars
  /\ []((th["A1"].pc = "idle" /\ res["A1"].op = "Passwd") => ~dirs["newpw"].exists)

\* Passwd has failed on an empty password and on the held lock, and has
\* then succeeded on the same handle after unlock().
C18_Witness ==
  /\ th["A1"].pc = "idle" /\ res["A1"] = Res("Passwd", "none", "ok")
  /\ hist.pwErr = {"empty", "busy"}
  /\ th["A2"].pc = "idle" /\ res["A2"].op = "unlock"
  /\ mem["A"].pk.pw = NewPw
  /\ ~dirs["newpw"].exists


(***************************************************************************)
(* Delete, for the one caller of Spec.                                     *)
(***************************************************************************)
\* The caller's last call was Delete(p) and it has returned.
Deleted(p) == th["A1"].pc = "idle" /\ res["A1"].op = "Delete" /\ res["A1"].path = p

\* C19: Delete(p) returns success; after it p holds no secret and no file,
\* and the Load(p) that follows fails with "secret not found".  Delete(p) on
\* a path that holds no secret returns success in one step that changes
\* neither disk nor memory, so a second Delete(p) leaves everything as the
\* first one left it.
C19_DeleteIdempotent ==
  /\ [](\A p \in Paths : Deleted(p) =>
          /\ res["A1"].st = "ok"
          /\ p \notin DOMAIN files
          /\ ~saved[p].has)
  /\ [][\A p \in Paths : (Deleted(p) /\ Load("A1", p)) =>
          (res'["A1"] = NotFound(p) /\ th'["A1"].pc = "idle")]_vars
  /\ [][\A p \in Paths : (~saved[p].has /\ Delete("A1", p)) =>
          /\ res'["A1"] = Res("Delete", p, "ok")
          /\ UNCHANGED <<dirs, files, locks, mem, saved, th, pending>>]_vars
  /\ [][\A p \in Paths : (Deleted(p) /\ Delete("A1", p)) =>
          UNCHANGED <<dirs, files, locks, mem, saved, th, res, pending>>]_vars

\* A secret was saved at p1 and deleted, and the Load that followed found
\* no secret.
C19_Witness ==
  /\ th["A1"].pc = "idle"
  /\ res["A1"] = NotFound("p1")
  /\ hist.vals["p1"] # {}
  /\ ~saved["p1"].has
  /\ "p1" \notin DOMAIN files


\* What Load(q) returns in the current state: readFile, then decryptData.
LoadOf(q) ==
  IF q \in DOMAIN files
    THEN LET r == decryptData(mem["A"], dirs["keys"], files[q].c)
         IN [st |-> r.st, val |-> r.val]
    ELSE [st |-> "notfound", val |-> <<>>]

\* The step belongs to a Save or a Delete of path p by the caller.
OnPath(p) ==
  \/ th["A1"].op \in {"Save", "Delete"} /\ th["A1"].path = p
  \/ th'["A1"].op \in {"Save", "Delete"} /\ th'["A1"].path = p
  \/ Delete("A1", p)

\* C20: Save(p1, d1) and Delete(p1) affect only p1: for every other path p2
\* that holds a secret, no step of the call changes p2's file or what
\* Load(p2) returns, which is p2's secret; and a Load returns what LoadOf
\* gives for its path.
C20_OnlyOwnPath ==
  /\ [][\A p, q \in Paths : (p # q /\ saved[q].has /\ OnPath(p)) =>
          /\ q \in DOMAIN files /\ q \in DOMAIN files' /\ files'[q] = files[q]
          /\ LoadOf(q) = [st |-> "ok", val |-> saved[q].val]
          /\ LoadOf(q)' = LoadOf(q)]_vars
  /\ [][(th["A1"].pc \in {"decryptData", "decryptDataCurrent", "decryptDataLoadKey",
                           "loadKeyRead", "loadKeyUnwrap"}
           /\ th'["A1"].pc = "idle") =>
          /\ res'["A1"].st = LoadOf(th["A1"].path).st
          /\ res'["A1"].val = LoadOf(th["A1"].path).val]_vars

\* p1 was saved and has been deleted while p2 holds a secret, which a Load
\* still returns.
C20_Witness ==
  /\ th["A1"].pc = "idle"
  /\ res["A1"] = Res("Delete", "p1", "ok")
  /\ hist.vals["p1"] # {} /\ "p1" \notin DOMAIN files
  /\ saved["p2"].has
  /\ LoadOf("p2") = [st |-> "ok", val |-> saved["p2"].val]


(***************************************************************************)
(* SpecNew: NewStore on whatever the store path holds: nothing, a regular  *)
(* file, or a directory with or without a key directory whose salt,        *)
(* currentkey, key file and lock file are each present or not, with or     *)
(* without a secret, a .newpw and a .oldpw directory.  The password is     *)
(* empty, the store's or another one.                                      *)
(***************************************************************************)
CurFiles(c) == {NoCur, TruncatedCur, CurFile(c), [exists |-> TRUE, bytes |-> <<c, c>>]}

KeyDirs(c) ==
  {[exists |-> TRUE, salt |-> s, cur |-> cf, keys |-> ks, lock |-> l, tmp |-> FALSE,
    sub |-> FALSE] :
     s \in {0, 1, ShortSalt}, cf \in CurFiles(c), l \in {0, 1},
     ks \in {NoKeys, Put(NoKeys, c, encryptKey(1, deriveKeyFromPassword(OldPw, 1).key))}}

InitNew ==
  /\ \/ /\ dirs = NoDisk
        /\ files \in {[x \in {} |-> 0], Put([x \in {} |-> 0], RootFile, [ino |-> 2, c |-> EmptyC])}
     \/ \E c \in StartIdx, secret \in BOOLEAN :
          /\ \E kd \in KeyDirs(c) \cup {NoDir}, np \in {NoDir, [NoDir EXCEPT !.exists = TRUE]},
                op \in {NoDir, StoreDir(c, OldPw)} :
               dirs = [d \in DirNames |-> IF d = "keys" THEN kd ELSE IF d = "newpw" THEN np ELSE op]
          /\ files = IF secret THEN Put([x \in {} |-> 0], "p1", [ino |-> 2, c |-> Frame(c, 1, <<1>>)])
                               ELSE [x \in {} |-> 0]
  /\ locks = {}
  /\ mem = [P \in Procs |-> ClosedMem]
  /\ th = [t \in Threads |-> Idle]
  /\ res = [t \in Threads |-> NoRes]
  /\ saved = [p \in Paths |-> NoSaved]
  /\ pending = [P \in Procs |-> FALSE]
  /\ hist = NoHist
  /\ call = NoCall
  /\ budget = [t \in Threads |-> NoBudget]

NextNew ==
  \/ \E pw \in {"", OldPw, NewPw} : NewStore("A1", pw)
  \/ Close("A1")
  \/ WipeRandom("A1")
  \/ WipeZero("A1")
  \/ CloseClear("A1")
  \/ checkNewStoreStatDir("A1")
  \/ checkNewStoreStatKeyDir("A1")
  \/ checkNewStoreStatOld("A1")
  \/ checkNewStoreRename("A1")
  \/ checkNewStoreReadDir("A1")
  \/ checkNewStoreStatSalt("A1")
  \/ checkNewStoreReadCur("A1")
  \/ checkNewStoreStatKey("A1")
  \/ createNewStoreLock("A1")
  \/ createPrimaryKey("A1")
  \/ createPrimaryKeyWrite("A1")
  \/ newKey("A1")
  \/ newKeyWrite("A1")
  \/ saveCurrentKeyIndexTrunc("A1")
  \/ saveCurrentKeyIndexWrite("A1")
  \/ openExistingStoreOpen("A1")
  \/ rLockFlock("A1")
  \/ getPrimaryKey("A1")
  \/ getPrimaryKeyRead("A1")
  \/ loadCurrentKey("A1")
  \/ loadCurrentKeyRead("A1")
  \/ loadCurrentKeyIndex("A1")
  \/ loadCurrentKeyLoad("A1")
  \/ loadKeyRead("A1")
  \/ loadKeyUnwrap("A1")
  \/ loadCurrentKeySet("A1")
  \/ openExistingStoreRemove("A1")
  \/ checkForOldKeysOpen("A1")
  \/ checkForOldKeysGlob("A1")
  \/ startRotateWatch("A1")

SpecNew == InitNew /\ [][NextNew]_vars

\* The cases in which NewStore must refuse: an empty password, a store path
\* that is a regular file, a non-empty directory with neither a key
\* directory nor .oldpw, a key directory without its salt, with a currentkey
\* that is not one byte, or without the key file currentkey names.
Refused(pw) ==
  LET kd == dirs["keys"] IN
  \/ pw = ""
  \/ RootFile \in DOMAIN files
  \/ /\ ~kd.exists /\ ~dirs["oldpw"].exists
     /\ (DOMAIN files # {} \/ dirs["newpw"].exists)
  \/ /\ kd.exists
     /\ \/ kd.salt = 0
        \/ ~kd.cur.exists
        \/ Len(kd.cur.bytes) # 1
        \/ kd.cur.bytes[1] \notin DOMAIN kd.keys

\* C21: in each of these cases NewStore returns an error and neither
\* creates nor modifies anything on disk; no handle, sweep or watcher
\* results.
\* The step is one of a NewStore("A1", pw) call: the call itself, a step of
\* checkNewStore, a later step of a call that found a store to attach to, or
\* the first step of createNewStore, which sees the disk as the call did.
OpenPcs == {"checkNewStore", "checkNewStoreStatKeyDir", "checkNewStoreStatOld",
            "checkNewStoreRename", "checkNewStoreReadDir", "checkNewStoreStatSalt",
            "checkNewStoreReadCur", "checkNewStoreStatKey",
            "createNewStore", "openExistingStore", "rflock", "getPrimaryKey",
            "getPrimaryKeyRead", "loadCurrentKey", "loadCurrentKeyRead",
            "loadCurrentKeyIndex", "loadCurrentKeyLoad", "loadKeyRead", "loadKeyUnwrap",
            "loadCurrentKeySet", "openExistingStoreRemove",
            "checkForOldKeys", "checkForOldKeysGlob", "startRotateWatch"}
Opening(pw) ==
  \/ NewStore("A1", pw)
  \/ /\ th["A1"].op = "NewStore" /\ th["A1"].pw = pw
     /\ th["A1"].pc \in OpenPcs
     /\ th'["A1"] # th["A1"]
C21_NewStoreRefuses ==
  [][\A pw \in {"", OldPw, NewPw} : (Refused(pw) /\ Opening(pw)) =>
       /\ UNCHANGED <<dirs, files, pending, mem>>
       /\ \A u \in Threads \ {"A1"} : th'[u] = th[u]
       /\ th'["A1"].pc = "idle" =>
            (res'["A1"] = Res("NewStore", "none", "err") /\ locks' = {})]_vars

\* NewStore has refused a non-empty directory that holds a secret and a
\* .newpw directory and no key directory.
C21_Witness ==
  /\ res["A1"] = Res("NewStore", "none", "err")
  /\ ~mem["A"].dir
  /\ ~dirs["keys"].exists /\ ~dirs["oldpw"].exists
  /\ "p1" \in DOMAIN files


(***************************************************************************)
(* SpecRecover: a closed store left by an interrupted rotation, or a store *)
(* at rest.  The key directory holds the current key and possibly the key  *)
(* of the previous index (the rotation was killed after it wrote           *)
(* currentkey, the secret still under the old key or already rewritten) or *)
(* a key file of the next index, empty or written (killed before it wrote  *)
(* currentkey).  A client opens the store, loads and closes; the sweep and *)
(* the client's calls are scheduled fairly.                                *)
(***************************************************************************)
InitRecover ==
  \E c \in StartIdx, left \in {"none", "prev", "next"}, fileOld \in BOOLEAN,
     k \in {EmptyK, encryptKey(2, deriveKeyFromPassword(OldPw, 1).key)} :
    /\ fileOld => left = "prev"
    /\ (k = EmptyK) => left = "next"
    /\ dirs = [d \in DirNames |->
         IF d # "keys" THEN NoDir
         ELSE IF left = "prev" THEN [StoreDir(c, OldPw) EXCEPT !.keys = Put(@, PrevIndex(c), k)]
         ELSE IF left = "next" THEN [StoreDir(c, OldPw) EXCEPT !.keys = Put(@, NextIndex(c), k)]
         ELSE StoreDir(c, OldPw)]
    /\ files = Put([x \in {} |-> 0], "p1",
                   [ino |-> 2, c |-> IF fileOld THEN Frame(PrevIndex(c), 2, <<1>>)
                                                ELSE Frame(c, 1, <<1>>)])
    /\ locks = {}
    /\ mem = [P \in Procs |-> ClosedMem]
    /\ th = [t \in Threads |-> Idle]
    /\ res = [t \in Threads |-> NoRes]
    /\ saved = [p \in Paths |-> IF p = "p1" THEN [has |-> TRUE, val |-> <<1>>, over |-> FALSE]
                                             ELSE NoSaved]
    /\ pending = [P \in Procs |-> FALSE]
    /\ hist = [NoHist EXCEPT !.vals["p1"] = {<<1>>}]
    /\ call = NoCall
    /\ budget = [t \in Threads |-> IF t = "A1" THEN Limit(MaxOps, 0, 0, 0) ELSE NoBudget]

\* A step of a Load or of the sweep.
RecoverStep(t) ==
  \/ WipeRandom(t)
  \/ WipeZero(t)
  \/ CloseClear(t)
  \/ checkNewStoreStatDir(t)
  \/ checkNewStoreStatKeyDir(t)
  \/ checkNewStoreStatSalt(t)
  \/ checkNewStoreReadCur(t)
  \/ checkNewStoreStatKey(t)
  \/ openExistingStoreOpen(t)
  \/ getPrimaryKey(t)
  \/ getPrimaryKeyRead(t)
  \/ loadCurrentKey(t)
  \/ loadCurrentKeyRead(t)
  \/ loadCurrentKeyIndex(t)
  \/ loadCurrentKeyLoad(t)
  \/ loadCurrentKeySet(t)
  \/ openExistingStoreRemove(t)
  \/ checkForOldKeysOpen(t)
  \/ checkForOldKeysGlob(t)
  \/ startRotateWatch(t)
  \/ lockStat(t)
  \/ lockOpen(t)
  \/ flock(t)
  \/ rLockFlock(t)
  \/ readFileRead(t)
  \/ decryptDataIndex(t)
  \/ decryptDataCurrent(t)
  \/ decryptDataLoadKey(t)
  \/ loadKeyRead(t)
  \/ loadKeyUnwrap(t)
  \/ encryptDataKey(t)
  \/ encryptDataIdx(t)
  \/ updateFiles(t)
  \/ reencryptFileRead(t)
  \/ reencryptFileIndex(t)
  \/ reencryptFileWrite(t)
  \/ updateFilesCheck(t)
  \/ listDataFilesWalk(t)
  \/ listDataFilesReadDir(t)
  \/ listDataFilesLstat(t)
  \/ getKeyIndex(t)
  \/ getKeyIndexRead(t)
  \/ updateFilesCleanup(t)
  \/ updateFilesRemove(t)

NextRecover ==
  \/ NewStore("A1", OldPw)
  \/ SweepsIdle("A") /\ Close("A1")
  \/ Load("A1", "p1")
  \/ \E t \in {"A1", "As"} : RecoverStep(t)

SpecRecover ==
  InitRecover /\ [][NextRecover]_vars /\ WF_vars(RecoverStep("A1")) /\ WF_vars(RecoverStep("As"))

\* The key directory holds the one key currentkey names, and every data file
\* is a frame of that index sealed under that key.
Recovered ==
  /\ Steady
  /\ \A p \in Paths : saved[p].has => p \in DOMAIN files
  /\ \A p \in DOMAIN files :
       gcmOpen(dirs["keys"].keys[dirs["keys"].cur.bytes[1]].raw, files[p].c).st = "ok"

\* C22: a NewStore that attaches to a key directory with more than one key
\* file starts the sweep, and the sweep leads to a state where it has
\* finished, every data file is sealed under the current key and no other
\* key file is left; a NewStore that attaches to a key directory with one
\* key file starts no sweep and changes nothing on disk.
C22_OpenRecovers ==
  /\ [][(th["A1"].pc = "checkForOldKeysGlob" /\ th'["A1"] # th["A1"]) =>
          IF Cardinality(DOMAIN dirs["keys"].keys) > 1
            THEN th["As"].pc = "idle" /\ th'["As"].pc = "updateFiles"
            ELSE th'["As"] = th["As"]]_vars
  /\ [][(Opening(OldPw) /\ Cardinality(DOMAIN dirs["keys"].keys) <= 1) =>
          /\ UNCHANGED <<dirs, files>>
          /\ th'["As"] = th["As"]]_vars
  /\ (th["As"].pc = "updateFiles") ~> (th["As"].pc = "idle" /\ Recovered)

\* The sweep started by NewStore has rewritten the secret that was under
\* the previous key (the path names a new inode) and has removed that key.
C22_Witness ==
  /\ res["A1"] = Res("NewStore", "none", "ok")
  /\ th["As"].pc = "idle"
  /\ Recovered
  /\ files["p1"].ino # 2
  /\ files["p1"].c.key = mem["A"].key


(***************************************************************************)
(* SpecKill: two processes hold the store open.  The client of A changes   *)
(* the password; process A is killed at any step of Passwd, and the store  *)
(* is then reopened by A under the old or the new password.  The client of *)
(* B changes the password as well, while A is in no call, so also when A   *)
(* was killed and has left its directories.  No sweep, no rotation.        *)
(***************************************************************************)
InitKill ==
  /\ InitSaved(0, {"A", "B"})
  /\ budget = [t \in Threads |->
       IF t = "A1" THEN Limit(0, 0, MaxPw + 1, MaxCrash)
       ELSE IF t = "B1" THEN Limit(0, 0, MaxPw, 0)
       ELSE NoBudget]

NextKill ==
  \/ th["B1"].pc = "idle" /\ Passwd("A1", NewPw)
  \/ th["A1"].pc = "idle" /\ Passwd("B1", NewPw)
  \/ Crash("A1")
  \/ \E pw \in {OldPw, NewPw} : th["B1"].pc = "idle" /\ NewStore("A1", pw)
  \/ \E t \in {"A1", "B1"} :
       \/ checkNewStoreStatDir(t)
       \/ checkNewStoreStatKeyDir(t)
       \/ checkNewStoreStatOld(t)
       \/ checkNewStoreRename(t)
       \/ checkNewStoreStatSalt(t)
       \/ checkNewStoreReadCur(t)
       \/ checkNewStoreStatKey(t)
       \/ openExistingStoreOpen(t)
       \/ rLockFlock(t)
       \/ getPrimaryKey(t)
       \/ getPrimaryKeyRead(t)
       \/ loadCurrentKey(t)
       \/ loadCurrentKeyRead(t)
       \/ loadCurrentKeyIndex(t)
       \/ loadCurrentKeyLoad(t)
       \/ loadKeyRead(t)
       \/ loadKeyUnwrap(t)
       \/ loadCurrentKeySet(t)
       \/ openExistingStoreRemove(t)
       \/ checkForOldKeysOpen(t)
       \/ checkForOldKeysGlob(t)
       \/ startRotateWatch(t)
       \/ lockNB(t)
       \/ PasswdCopyDir(t)
       \/ PasswdCopyFiles(t)
       \/ PasswdSalt(t)
       \/ PasswdSaltWrite(t)
       \/ PasswdGlob(t)
       \/ PasswdRewrap(t)
       \/ PasswdRewrapKey(t)
       \/ PasswdRewrapTrunc(t)
       \/ PasswdRewrapWrite(t)
       \/ PasswdRename1(t)
       \/ PasswdRename2(t)
       \/ PasswdSetKey(t)
       \/ zeroOldKeys(t)

SpecKill == InitKill /\ [][NextKill]_vars

\* C23: .newpw and .oldpw exist only while a Passwd call is in progress:
\* with no Passwd call of either process in progress, neither exists once
\* Passwd has returned, with success or with an error, nor once a NewStore
\* that followed a kill inside Passwd has returned success.
C23_PasswdDirsTransient ==
  (/\ th["A1"].pc = "idle"
   /\ \A u \in ApiThreads : th[u].op # "Passwd"
   /\ \/ res["A1"].op = "Passwd"
      \/ res["A1"] = Res("NewStore", "none", "ok"))
    => (~dirs["newpw"].exists /\ ~dirs["oldpw"].exists)


(***************************************************************************)
(* SpecClose: one process with a secret saved.  Its client saves, rotates  *)
(* and closes the handle, one call after the other; the watcher and the    *)
(* sweep run beside the client.  Every goroutine that can take a step     *)
(* eventually takes one.                                                   *)
(***************************************************************************)
InitClose ==
  /\ \E c \in StartIdx : InitSaved(c, {"A"})
  /\ budget = [t \in Threads |->
       IF t = "A1" THEN Limit(MaxOps, MaxRot, 0, 0) ELSE NoBudget]

CloseThreads == {"A1", "As", "As2", "Aw"}

CloseStep(t) ==
  \/ Step(t)
  \/ WipeRandom(t)
  \/ WipeZero(t)
  \/ CloseClear(t)
  \/ rotateWatchStop(t)

\* The client calls Rotate on a handle it has not closed.
NextClose ==
  \/ \E d \in RotData : Save("A1", "p1", d)
  \/ mem["A"].dir /\ Rotate("A1")
  \/ Close("A1")
  \/ \E t \in CloseThreads : CloseStep(t)

SpecClose ==
  InitClose /\ [][NextClose]_vars /\ \A t \in CloseThreads : WF_vars(CloseStep(t))

\* C24: once Close has returned, the handle's primary key and current key
\* are zero and its paths are cleared, and they stay so.
AfterClose == th["A1"].pc = "idle" /\ res["A1"].op = "Close"
C24_CloseWipes ==
  AfterClose => (Cleared(mem["A"]) /\ mem["A"].pk = ZeroPK /\ mem["A"].key = 0)


\* The path that goroutine t gave to lock() or rLock().
LockPath(t) ==
  IF th[t].op = "Load" THEN th[t].path
  ELSE IF th[t].op = "Watch" THEN KeyLock
  ELSE th[t].tgt

\* C25: no two callers hold locks on the same path at the same time unless
\* both locks are shared: a lock(path) or rLock(path) called while another
\* caller holds the exclusive lock on the path waits for its unlock, and
\* lock(path) waits while any caller holds a lock on the path.
C25_LockExcludes ==
  \A l1 \in locks : \A l2 \in locks :
    (l1.t # l2.t /\ LockPath(l1.t) = LockPath(l2.t))
      => (l1.mode = "SH" /\ l2.mode = "SH")


\* C26: Save reads the current key and the current index as one pair:
\* whatever Rotate or the watcher's reload does meanwhile, every frame in a
\* data file is sealed under the data key that the key file named by the
\* frame's first byte wraps.
C26_FrameKeyOfIndex ==
  \A p \in DOMAIN files :
    LET c == files[p].c
        kd == dirs["keys"]
    IN (c.len >= 1 /\ kd.exists /\ c.idx \in DOMAIN kd.keys /\ kd.keys[c.idx].len >= 1)
         => c.key = kd.keys[c.idx].raw


\* C27: the cleanup of a sweep deletes key files only when no rotation, by
\* this process or by a peer, has happened since its verification, so no
\* step of a sweep's cleanup removes the key file that the currentkey file
\* on disk names.
C27_CleanupKeepsCurrent ==
  [][\A t \in SweepThreads :
       LET kd == dirs["keys"] IN
       (/\ th[t].pc = "updateFilesRemove"
        /\ th'[t] # th[t]
        /\ kd.cur.exists /\ Len(kd.cur.bytes) = 1
        /\ kd.cur.bytes[1] \in DOMAIN kd.keys)
         => kd.cur.bytes[1] \in DOMAIN dirs'["keys"].keys]_vars


\* C28: once Close has wiped the keys and cleared the paths, no step of the
\* sweep removes a data file, removes a key file, or puts a frame sealed
\* under the wiped key into a data file.
C28_ClosedSweepInert ==
  [][(Cleared(mem["A"]) /\ \E s \in SweepsOf("A") : th'[s] # th[s])
       => /\ DOMAIN files \subseteq DOMAIN files'
          /\ DOMAIN dirs["keys"].keys \subseteq DOMAIN dirs'["keys"].keys
          /\ \A p \in DOMAIN files :
               files'[p] # files[p] => files'[p].c.key # 0]_vars


\* The sweep goroutine t is in reencryptFile, at its read of the file or at
\* the decryption of what it read.
ReadsFile(t) ==
  /\ th[t].op = "Sweep"
  /\ th[t].pc \in {"reencryptFileRead", "reencryptFileIndex", "decryptData",
                   "decryptDataCurrent", "decryptDataLoadKey", "loadKeyRead",
                   "loadKeyUnwrap", "reencryptFileRemove"}

\* The frame c does not open under the data key that the key file named by
\* its first byte wraps.
FailsAuthentication(c) ==
  LET kd == dirs["keys"] IN
  /\ kd.exists /\ c.idx \in DOMAIN kd.keys /\ kd.keys[c.idx].len >= 1
  /\ gcmOpen(kd.keys[c.idx].raw, c).st # "ok"

\* C29: a step of the sweep removes a data file only when the file is empty
\* or its frame fails authentication under the key its first byte names;
\* that the key cannot be obtained is no reason to remove it.
C29_SweepRemovesOnlyCorrupt ==
  [][\A t \in SweepThreads : \A p \in DOMAIN files :
       (ReadsFile(t) /\ th[t].path = p /\ th'[t] # th[t] /\ p \notin DOMAIN files')
         => (files[p].c.len < 1 \/ FailsAuthentication(files[p].c))]_vars


(***************************************************************************)
(* reencryptFile's error returns after the file was read and decrypted:    *)
(* encryptData, os.CreateTemp, Chmod, Write or os.Rename fails.  Each      *)
(* returns (removing the temp file where one was made) and leaves the path *)
(* as it is; the deferred unlock runs.                                     *)
(***************************************************************************)
reencryptFileFail_truncates(t) ==
  /\ th[t].op = "Sweep"
  /\ th[t].pc \in {"encKey", "encIdx", "reencryptFileWrite"}
  /\ Can(t, "ops")
  /\ budget' = Spend(t, "ops")
  /\ files' = [files EXCEPT ![th[t].path].c = EmptyC]
  /\ locks' = Unlocked(t)
  /\ th' = [th EXCEPT ![t] = NextFile(th[t])]
  /\ UNCHANGED <<dirs, mem, res, saved, pending, hist, call>>

reencryptFileFail_stops(t) ==
  /\ th[t].op = "Sweep"
  /\ th[t].pc \in {"encKey", "encIdx", "reencryptFileWrite"}
  /\ Can(t, "ops")
  /\ budget' = Spend(t, "ops")
  /\ files' = files
  /\ locks' = Unlocked(t)
  /\ th' = [th EXCEPT ![t] = Idle]
  /\ UNCHANGED <<dirs, mem, res, saved, pending, hist, call>>

reencryptFileFail(t) ==
  /\ th[t].op = "Sweep"
  /\ th[t].pc \in {"encKey", "encIdx", "reencryptFileWrite"}
  /\ Can(t, "ops")
  /\ budget' = Spend(t, "ops")
  /\ files' = files
  /\ locks' = Unlocked(t)
  /\ th' = [th EXCEPT ![t] = NextFile(th[t])]
  /\ UNCHANGED <<dirs, mem, res, saved, pending, hist, call>>

(***************************************************************************)
(* SpecSweep: one process, one secret saved.  The client rotates; the      *)
(* sweep re-encrypts the secret, its re-encryption may fail, and the       *)
(* process may be killed at any step of the sweep.  The store is then      *)
(* opened again, which starts the next sweep.  The client loads while no   *)
(* sweep is running.                                                       *)
(***************************************************************************)
InitSweep ==
  /\ \E c \in StartIdx : InitSaved(c, {"A"})
  /\ budget = [t \in Threads |->
       IF t = "A1" THEN Limit(MaxOps, MaxRot, 0, MaxCrash)
       ELSE IF t = "As" THEN Limit(MaxFail, 0, 0, 0)
       ELSE NoBudget]

SweepStep(t) ==
  \/ checkNewStoreStatDir(t)
  \/ checkNewStoreStatKeyDir(t)
  \/ checkNewStoreStatSalt(t)
  \/ checkNewStoreReadCur(t)
  \/ checkNewStoreStatKey(t)
  \/ openExistingStoreOpen(t)
  \/ getPrimaryKey(t)
  \/ getPrimaryKeyRead(t)
  \/ loadCurrentKey(t)
  \/ loadCurrentKeyRead(t)
  \/ loadCurrentKeyIndex(t)
  \/ loadCurrentKeyLoad(t)
  \/ loadCurrentKeySet(t)
  \/ openExistingStoreRemove(t)
  \/ checkForOldKeysOpen(t)
  \/ checkForOldKeysGlob(t)
  \/ startRotateWatch(t)
  \/ lockStat(t)
  \/ lockOpen(t)
  \/ flock(t)
  \/ rLockFlock(t)
  \/ readFileRead(t)
  \/ decryptDataIndex(t)
  \/ decryptDataCurrent(t)
  \/ decryptDataLoadKey(t)
  \/ loadKeyRead(t)
  \/ loadKeyUnwrap(t)
  \/ RotateCheck(t)
  \/ newKeyWrite(t)
  \/ RotateSetKey(t)
  \/ RotateSetIdx(t)
  \/ saveCurrentKeyIndexTrunc(t)
  \/ saveCurrentKeyIndexWrite(t)
  \/ RotateDone(t)
  \/ updateFiles(t)
  \/ reencryptFileRead(t)
  \/ reencryptFileIndex(t)
  \/ encryptDataKey(t)
  \/ encryptDataIdx(t)
  \/ reencryptFileWrite(t)
  \/ reencryptFileFail(t)
  \/ updateFilesCheck(t)
  \/ listDataFilesWalk(t)
  \/ listDataFilesReadDir(t)
  \/ listDataFilesLstat(t)
  \/ getKeyIndex(t)
  \/ getKeyIndexRead(t)
  \/ updateFilesCleanup(t)
  \/ updateFilesRemove(t)

\* The client rotates an open handle while no sweep of it is running (a
\* rotation beside a running sweep is the matter of C26 and C40).
NextSweep ==
  \/ SweepsIdle("A") /\ Load("A1", "p1")
  \/ SweepsIdle("A") /\ mem["A"].dir /\ Rotate("A1")
  \/ th["A1"].pc = "idle" /\ ~SweepsIdle("A") /\ Crash("A1")
  \/ NewStore("A1", OldPw)
  \/ \E t \in CrashThreads : SweepStep(t)

SpecSweep == InitSweep /\ [][NextSweep]_vars

\* The frame c is whole, holds the bytes d, and opens under the data key
\* that the key file named by its first byte wraps under the password.
WholeFrame(c, d) ==
  LET kd == dirs["keys"] IN
  /\ c.len >= 1 + NonceSize + TagSize
  /\ c.pt = d
  /\ kd.exists /\ c.idx \in DOMAIN kd.keys
  /\ loadKeyFromPath(deriveKeyFromPassword(OldPw, kd.salt).key, kd.keys[c.idx])
       = [ok |-> TRUE, key |-> c.key]

\* C30: at every step of the sweep, and after a kill or a failed
\* re-encryption at any of them, the path of a saved secret holds one whole
\* frame, the old one under the old key or the new one under the current
\* key, and the secret loads: from the open handle between the client's
\* calls, and in every Load the client makes.
C30_SweepKeepsWholeFrame ==
  /\ saved["p1"].has
  /\ "p1" \in DOMAIN files
  /\ WholeFrame(files["p1"].c, saved["p1"].val)
  /\ (mem["A"].dir /\ th["A1"].pc = "idle")
       => LoadOf("p1") = [st |-> "ok", val |-> saved["p1"].val]
  /\ res["A1"].op = "Load"
       => (res["A1"].st = "ok" /\ res["A1"].val = saved["p1"].val)

\* A re-encryption has failed, the process was killed during a sweep, the
\* store was opened again, and the secret, now under the current key, was
\* loaded.
C30_Witness ==
  /\ budget["As"].ops < MaxFail
  /\ hist.crashAt = "run"
  /\ th["A1"].pc = "idle" /\ res["A1"].op = "Load" /\ res["A1"].st = "ok"
  /\ dirs["keys"].cur.exists /\ Len(dirs["keys"].cur.bytes) = 1
  /\ files["p1"].c.idx = dirs["keys"].cur.bytes[1]
  /\ files["p1"].ino # 2


(***************************************************************************)
(* SpecKeyPath: one Save, Load or Delete call with a caller-supplied path  *)
(* on a store whose root /a holds the key directory /a/.a (keyDirName)     *)
(* with one file /a/.a/a in it (currentkey), and one secret /a/a.          *)
(***************************************************************************)
keyDir == storeDir \o <<"/", ".", "a">>

KeyTree ==
  [files |-> {storeDir \o <<"/", "a">>, keyDir \o <<"/", "a">>},
   dirs |-> {<<"/">>, storeDir, keyDir}]

InitKeyPath ==
  /\ dirs = [d \in DirNames |-> IF d = "keys" THEN StoreDir(0, "pw0") ELSE NoDir]
  /\ files = [x \in {} |-> 0]
  /\ locks = {}
  /\ mem = [P \in Procs |-> IF P = "A" THEN OpenMem(0, "pw0") ELSE ClosedMem]
  /\ th = [t \in Threads |-> Idle]
  /\ res = [t \in Threads |-> NoRes]
  /\ saved = [p \in Paths |-> NoSaved]
  /\ pending = [P \in Procs |-> FALSE]
  /\ hist = NoHist
  /\ budget = [t \in Threads |-> NoBudget]
  /\ call = [NoCall EXCEPT !.tree = KeyTree, !.before = KeyTree]

NextKeyPath ==
  \E arg \in PathsUpTo(MaxPathLen) :
    \/ SaveCall(arg)
    \/ LoadCall(arg)
    \/ DeleteCall(arg)

SpecKeyPath == InitKeyPath /\ [][NextKeyPath]_vars

\* listDataFiles: filepath.Walk(s.dir) lists every file, except below a
\* directory whose path has s.keyDir as a string prefix (SkipDir).
listDataFiles(tr) ==
  {f \in tr.files :
     /\ HasPrefix(f, storeDir \o <<"/">>)
     /\ \A d \in Ancestors(f) : ~HasPrefix(d, keyDir)}

\* The path is the store root, the key directory or a file inside it.
InKeyDir(full) ==
  full = storeDir \/ full = keyDir \/ HasPrefix(full, keyDir \o <<"/">>)

\* C31: no Save, Load or Delete call reads, creates, overwrites or removes
\* a file in the key directory or the store root itself, and every data
\* file that a Save has written, whatever its directory is called, is among
\* the files the sweep lists.
C31_KeyDirOutOfReach ==
  /\ (call.op # "none" /\ InKeyDir(call.full))
       => (call.tree = call.before /\ ~(call.st = "ok" /\ call.full \in call.before.files))
  /\ (call.op = "Save" /\ call.st = "ok" /\ ~InKeyDir(call.full))
       => call.full \in listDataFiles(call.tree)


(***************************************************************************)
(* SpecCreate: a directory that holds nothing, and two processes that      *)
(* call NewStore on it with the same password, then save and load.         *)
(***************************************************************************)
InitCreate ==
  /\ dirs = NoDisk
  /\ files = [x \in {} |-> 0]
  /\ locks = {}
  /\ mem = [P \in Procs |-> ClosedMem]
  /\ th = [t \in Threads |-> Idle]
  /\ res = [t \in Threads |-> NoRes]
  /\ saved = [p \in Paths |-> NoSaved]
  /\ pending = [P \in Procs |-> FALSE]
  /\ hist = NoHist
  /\ call = NoCall
  /\ budget = [t \in Threads |->
       IF t \in {"A1", "B1"} THEN Limit(MaxOps, 0, 0, 0) ELSE NoBudget]

CreateThreads == {"A1", "B1"}

NextCreate ==
  \E t \in CreateThreads :
    \/ NewStore(t, OldPw)
    \/ \E d \in RotData : Save(t, "p1", d)
    \/ Load(t, "p1")
    \/ checkNewStoreStatDir(t)
    \/ checkNewStoreStatKeyDir(t)
    \/ checkNewStoreStatOld(t)
    \/ checkNewStoreReadDir(t)
    \/ checkNewStoreStatSalt(t)
    \/ checkNewStoreReadCur(t)
    \/ checkNewStoreStatKey(t)
    \/ createNewStoreLock(t)
    \/ createPrimaryKey(t)
    \/ createPrimaryKeyWrite(t)
    \/ newKey(t)
    \/ newKeyWrite(t)
    \/ saveCurrentKeyIndexTrunc(t)
    \/ saveCurrentKeyIndexWrite(t)
    \/ openExistingStoreOpen(t)
    \/ getPrimaryKey(t)
    \/ getPrimaryKeyRead(t)
    \/ loadCurrentKey(t)
    \/ loadCurrentKeyRead(t)
    \/ loadCurrentKeyIndex(t)
    \/ loadCurrentKeyLoad(t)
    \/ loadKeyRead(t)
    \/ loadKeyUnwrap(t)
    \/ loadCurrentKeySet(t)
    \/ openExistingStoreRemove(t)
    \/ checkForOldKeysOpen(t)
    \/ checkForOldKeysGlob(t)
    \/ startRotateWatch(t)
    \/ encryptDataKey(t)
    \/ encryptDataIdx(t)
    \/ lockStat(t)
    \/ lockOpen(t)
    \/ flock(t)
    \/ writeFileTrunc(t)
    \/ writeFileWrite(t)
    \/ rLockFlock(t)
    \/ readFileRead(t)
    \/ decryptDataIndex(t)
    \/ decryptDataCurrent(t)

SpecCreate == InitCreate /\ [][NextCreate]_vars

\* C32: once a NewStore call has returned a handle, no step overwrites
\* primarysalt or key0, and every open handle holds the primary key and
\* the data key that primarysalt and key0 on disk give, so that a secret
\* saved through one handle loads through every other.
C32_OneCreator ==
  /\ [][(\E P \in Procs : mem[P].dir)
          => /\ dirs'["keys"].salt = dirs["keys"].salt
             /\ 0 \in DOMAIN dirs["keys"].keys
             /\ dirs'["keys"].keys = dirs["keys"].keys]_vars
  /\ [](\A P \in Procs : mem[P].dir =>
          loadKey(mem[P], dirs["keys"], 0) = [ok |-> TRUE, key |-> mem[P].key])


(***************************************************************************)
(* SpecJoin: process A holds the store open and rotates; process B opens   *)
(* the store with its password at any moment.                              *)
(***************************************************************************)
InitJoin ==
  /\ \E c \in StartIdx : InitStore(c, {"A"})
  /\ budget = [t \in Threads |-> IF t = "A1" THEN Limit(0, MaxRot, 0, 0) ELSE NoBudget]

NextJoin ==
  \/ NewStore("B1", OldPw)
  \/ checkNewStoreStatDir("B1")
  \/ checkNewStoreStatKeyDir("B1")
  \/ checkNewStoreStatSalt("B1")
  \/ checkNewStoreReadCur("B1")
  \/ checkNewStoreStatKey("B1")
  \/ openExistingStoreOpen("B1")
  \/ getPrimaryKey("B1")
  \/ getPrimaryKeyRead("B1")
  \/ loadCurrentKey("B1")
  \/ loadCurrentKeyRead("B1")
  \/ loadCurrentKeyIndex("B1")
  \/ loadCurrentKeyLoad("B1")
  \/ loadKeyRead("B1")
  \/ loadKeyUnwrap("B1")
  \/ loadCurrentKeySet("B1")
  \/ openExistingStoreRemove("B1")
  \/ checkForOldKeysOpen("B1")
  \/ checkForOldKeysGlob("B1")
  \/ startRotateWatch("B1")
  \/ NextPeer

SpecJoin == InitJoin /\ [][NextJoin]_vars

\* C33: a NewStore call with the store's password on an intact store
\* returns success, whatever a Rotate or a sweep of another process is
\* doing to the key directory meanwhile.
C33_OpenBesideRotate == res["B1"].op = "NewStore" => res["B1"].st = "ok"


(***************************************************************************)
(* SpecPass: two processes hold the store open, two secrets are saved.     *)
(* A's Rotate has just returned: the key before the current one is still   *)
(* on disk, both secrets are sealed under it, both handles hold the        *)
(* current key, and A's sweep is at its first call of updateFiles.  Every  *)
(* re-encryption of A's sweep may fail, any number of times; B rotates     *)
(* meanwhile, between two steps of A's sweep and watcher, A's watcher      *)
(* reloads between two steps of the sweep, and B's sweep and watcher run   *)
(* once A's sweep is at rest.                                              *)
(* Every goroutine that can take a step eventually does.                   *)
(***************************************************************************)
InitPass ==
  LET c == IdxMod - 1 IN
    /\ dirs = [d \in DirNames |->
         IF d # "keys" THEN NoDir
         ELSE [StoreDir(c, OldPw) EXCEPT
                 !.keys = Put(@, PrevIndex(c), encryptKey(2, deriveKeyFromPassword(OldPw, 1).key))]]
    /\ files = Put(Put([x \in {} |-> 0],
                      "p1", [ino |-> 2, c |-> Frame(PrevIndex(c), 2, <<1>>)]),
                      "p2", [ino |-> 3, c |-> Frame(PrevIndex(c), 2, <<2>>)])
    /\ locks = {}
    /\ mem = [P \in Procs |-> OpenMem(c, OldPw)]
    /\ th = [t \in Threads |->
         IF t = "As" THEN [Idle EXCEPT !.pc = "updateFiles", !.op = "Sweep"] ELSE Idle]
    /\ res = [t \in Threads |-> NoRes]
    /\ saved = [p \in Paths |->
         IF p = "p1" THEN [has |-> TRUE, val |-> <<1>>, over |-> FALSE]
         ELSE IF p = "p2" THEN [has |-> TRUE, val |-> <<2>>, over |-> FALSE]
         ELSE NoSaved]
    /\ pending = [P \in Procs |-> FALSE]
    /\ hist = [NoHist EXCEPT !.vals["p1"] = {<<1>>}, !.vals["p2"] = {<<2>>}]
    /\ call = NoCall
    /\ budget = [t \in Threads |->
         IF t = "B1" THEN Limit(0, MaxRot, 0, 0)
         ELSE IF t = "As" THEN Free
         ELSE NoBudget]

PassThreads == {"B1", "As", "Aw", "Bs", "Bs2", "Bw"}

PassStep(t) ==
  \/ lockStat(t)
  \/ lockOpen(t)
  \/ flock(t)
  \/ rLockFlock(t)
  \/ RotateCheck(t)
  \/ newKeyWrite(t)
  \/ RotateSetKey(t)
  \/ RotateSetIdx(t)
  \/ saveCurrentKeyIndexTrunc(t)
  \/ saveCurrentKeyIndexWrite(t)
  \/ RotateDone(t)
  \/ updateFiles(t)
  \/ reencryptFileRead(t)
  \/ reencryptFileRemove(t)
  \/ reencryptFileIndex(t)
  \/ decryptDataIndex(t)
  \/ decryptDataCurrent(t)
  \/ decryptDataLoadKey(t)
  \/ loadKeyRead(t)
  \/ loadKeyUnwrap(t)
  \/ encryptDataKey(t)
  \/ encryptDataIdx(t)
  \/ reencryptFileWrite(t)
  \/ reencryptFileFail(t)
  \/ updateFilesCheck(t)
  \/ listDataFilesWalk(t)
  \/ listDataFilesReadDir(t)
  \/ listDataFilesLstat(t)
  \/ getKeyIndex(t)
  \/ getKeyIndexRead(t)
  \/ updateFilesCleanup(t)
  \/ updateFilesRemove(t)
  \/ rotateWatch(t)
  \/ rotateWatchLock(t)
  \/ loadCurrentKey(t)
  \/ loadCurrentKeyRead(t)
  \/ loadCurrentKeyIndex(t)
  \/ loadCurrentKeyLoad(t)
  \/ loadCurrentKeySet(t)
  \/ rotateWatchUnlock(t)

\* The goroutine t is in a call and waits: for a flock another holds, or
\* for the writer of the file it is about to read.
Waits(t) ==
  \/ th[t].pc = "flock" /\ HeldByOther(t, th[t].fd, {"EX", "SH"})
  \/ th[t].pc = "rflock" /\ HeldByOther(t, th[t].fd, {"EX"})
  \/ th[t].pc = "loadCurrentKeyRead" /\ CurWriteLocked
  \/ th[t].pc = "loadKeyRead" /\ KeyWriteLocked(th[t].nki)
AtRestOrWaits(t) == th[t].pc \in {"idle", "stopped"} \/ Waits(t)

\* B's sweep and B's watcher are scheduled once A's sweep is at rest.  A
\* Rotate of B that has been called runs on to its return, and a reload of
\* a watcher to its end, the others taking their steps while it waits.
PassTurn(t) ==
  /\ t \in {"Bs", "Bs2", "Bw"} => th["As"].pc = "idle"
  /\ t # "B1" => AtRestOrWaits("B1")
  /\ t \notin {"B1", "Aw", "Bw"} => (AtRestOrWaits("Aw") /\ AtRestOrWaits("Bw"))

NextPass ==
  \/ Rotate("B1")
  \/ \E t \in PassThreads : PassTurn(t) /\ PassStep(t)

SpecPass ==
  InitPass /\ [][NextPass]_vars
    /\ \A t \in PassThreads : WF_vars(PassTurn(t) /\ PassStep(t))

\* The sweep goroutine t is inside the body of updateFiles(calls).
InPass(t) == th[t].op = "Sweep" /\ th[t].pc # "updateFiles"

\* C34: updateFiles runs its body with calls from 0 to 10 only, so at most
\* 11 times; a re-encryption that fails is followed by the next file of the
\* listing; the sweep hands no result to any caller; and every sweep that
\* has started comes to its end.
C34_SweepGivesUp ==
  /\ [](\A t \in SweepThreads :
          /\ th[t].calls <= MaxCalls + 1
          /\ InPass(t) => th[t].calls <= MaxCalls
          /\ res[t] = NoRes)
  /\ [][\A t \in SweepThreads :
          (th[t].pc \in {"encKey", "encIdx", "reencryptFileWrite"}
             /\ th'[t].pc \notin {"encKey", "encIdx", "reencryptFileWrite"}
             /\ files' = files)
            => th'[t] = NextFile(th[t])]_vars
  /\ \A t \in SweepThreads : (th[t].op = "Sweep") ~> (th[t].pc = "idle")

\* A's sweep has made its 11 passes and is at the call that gives up: p1
\* failed in every pass, p2 was re-encrypted.
C34_Witness ==
  /\ th["As"].pc = "updateFiles" /\ th["As"].calls = MaxCalls + 1
  /\ files["p1"].c.idx # mem["A"].idx
  /\ files["p2"].c.idx = mem["A"].idx


\* C35: a reload of the current key that fails ends neither the watching
\* of an open handle nor the agreement of its index with its key: the
\* watcher of an open handle is never stopped.
C35_ReloadFailureKeeps ==
  \A t \in WatchThreads : mem[ProcOf(t)].dir => th[t].pc # "stopped"


(***************************************************************************)
(* Rotate's writes can fail: writeFile of the new key file (newKey) or of  *)
(* currentkey (saveCurrentKeyIndex) returns an error, from the open or     *)
(* from the write after the truncation.  Rotate returns that error; the    *)
(* deferred unlock runs.  The file is left as the failed call left it.     *)
(***************************************************************************)
RotateWriteFail(t) ==
  /\ th[t].op = "Rotate"
  /\ th[t].pc \in {"newKeyWrite", "saveCurrentKeyIndexTrunc", "saveCurrentKeyIndexWrite"}
  /\ Can(t, "ops")
  /\ budget' = Spend(t, "ops")
  /\ locks' = Unlocked(t)
  /\ th' = [th EXCEPT ![t] = Idle]
  /\ res' = [res EXCEPT ![t] = Res("Rotate", "none", "err")]
  /\ UNCHANGED <<dirs, files, mem, saved, pending, hist, call>>

(***************************************************************************)
(* SpecWriteFail: one process holds the store open and rotates; a write of *)
(* Rotate may fail.  Its sweep and its watcher run.                        *)
(***************************************************************************)
InitWriteFail ==
  /\ \E c \in StartIdx : InitStore(c, {"A"})
  /\ budget = [t \in Threads |-> IF t = "A1" THEN Limit(MaxFail, MaxRot + 1, 0, 0) ELSE NoBudget]

NextWriteFail ==
  \/ Rotate("A1")
  \/ RotateWriteFail("A1")
  \/ \E t \in {"A1", "As", "As2", "Aw"} :
       \/ lockStat(t)
       \/ lockOpen(t)
       \/ flock(t)
       \/ rLockFlock(t)
       \/ RotateCheck(t)
       \/ newKeyWrite(t)
       \/ RotateSetKey(t)
       \/ RotateSetIdx(t)
       \/ saveCurrentKeyIndexTrunc(t)
       \/ saveCurrentKeyIndexWrite(t)
       \/ RotateDone(t)
       \/ updateFiles(t)
       \/ updateFilesCheck(t)
       \/ listDataFilesWalk(t)
       \/ listDataFilesReadDir(t)
       \/ listDataFilesLstat(t)
       \/ updateFilesCleanup(t)
       \/ updateFilesRemove(t)
       \/ rotateWatch(t)
       \/ rotateWatchLock(t)
       \/ loadCurrentKey(t)
       \/ loadCurrentKeyRead(t)
       \/ loadCurrentKeyIndex(t)
       \/ loadCurrentKeyLoad(t)
       \/ loadKeyRead(t)
       \/ loadKeyUnwrap(t)
       \/ loadCurrentKeySet(t)
       \/ rotateWatchUnlock(t)

SpecWriteFail == InitWriteFail /\ [][NextWriteFail]_vars

\* C36: when a Rotate call of a handle returns, with success or with an
\* error, the handle holds the index that currentkey holds and the key that
\* the key file of that index wraps.
C36_RotateReturnsInStep ==
  [][\A t \in ApiThreads :
       (th[t].op = "Rotate" /\ th'[t].pc = "idle")
         => MemMatchesDisk(ProcOf(t))']_vars


(***************************************************************************)
(* SpecDamaged: one process holds the store open.  Path p2 holds a secret; *)
(* path p1 holds no file, or a file that does not decrypt: one shorter     *)
(* than index byte and nonce, one whose first byte names a key that is not *)
(* in the key directory, or a whole frame with a byte changed.  The client *)
(* loads and rotates; its sweep and its watcher run.                       *)
(***************************************************************************)
DamageKinds == {"absent", "short", "nokey", "tampered"}

\* A frame sealed under key 1 at index c, with one byte of it changed: the
\* tag no longer fits any key.
Tampered(c) == [Frame(c, 1, <<1>>) EXCEPT !.key = 0]

Damaged(kind, c) ==
  IF kind = "short" THEN [Frame(c, 1, <<1>>) EXCEPT !.len = NonceSize]
  ELSE IF kind = "nokey" THEN Frame(PrevIndex(PrevIndex(c)), 1, <<1>>)
  ELSE Tampered(c)

InitDamaged ==
  \E c \in StartIdx, kind \in DamageKinds :
    /\ dirs = [d \in DirNames |-> IF d = "keys" THEN StoreDir(c, OldPw) ELSE NoDir]
    /\ files = LET good == Put([x \in {} |-> 0], "p2", [ino |-> 3, c |-> Frame(c, 1, <<2>>)])
               IN IF kind = "absent" THEN good
                  ELSE Put(good, "p1", [ino |-> 2, c |-> Damaged(kind, c)])
    /\ locks = {}
    /\ mem = [P \in Procs |-> IF P = "A" THEN OpenMem(c, OldPw) ELSE ClosedMem]
    /\ th = [t \in Threads |-> Idle]
    /\ res = [t \in Threads |-> NoRes]
    /\ saved = [p \in Paths |-> IF p = "p2" THEN [has |-> TRUE, val |-> <<2>>, over |-> FALSE]
                                ELSE NoSaved]
    /\ pending = [P \in Procs |-> FALSE]
    /\ hist = [NoHist EXCEPT !.vals["p2"] = {<<2>>}]
    /\ call = NoCall
    /\ budget = [t \in Threads |-> IF t = "A1" THEN Limit(MaxOps, MaxRot, 0, 0) ELSE NoBudget]

NextDamaged ==
  \/ \E p \in Paths : Load("A1", p)
  \/ Rotate("A1")
  \/ \E t \in {"A1", "As", "As2", "Aw"} :
       \/ lockStat(t)
       \/ lockOpen(t)
       \/ flock(t)
       \/ rLockFlock(t)
       \/ readFileRead(t)
       \/ decryptDataIndex(t)
       \/ decryptDataCurrent(t)
       \/ decryptDataLoadKey(t)
       \/ loadKeyRead(t)
       \/ loadKeyUnwrap(t)
       \/ RotateCheck(t)
       \/ newKeyWrite(t)
       \/ RotateSetKey(t)
       \/ RotateSetIdx(t)
       \/ saveCurrentKeyIndexTrunc(t)
       \/ saveCurrentKeyIndexWrite(t)
       \/ RotateDone(t)
       \/ updateFiles(t)
       \/ reencryptFileRead(t)
       \/ reencryptFileRemove(t)
       \/ reencryptFileIndex(t)
       \/ encryptDataKey(t)
       \/ encryptDataIdx(t)
       \/ reencryptFileWrite(t)
       \/ updateFilesCheck(t)
       \/ listDataFilesWalk(t)
       \/ listDataFilesReadDir(t)
       \/ listDataFilesLstat(t)
       \/ getKeyIndex(t)
       \/ getKeyIndexRead(t)
       \/ updateFilesCleanup(t)
       \/ updateFilesRemove(t)
       \/ rotateWatch(t)
       \/ rotateWatchLock(t)
       \/ loadCurrentKey(t)
       \/ loadCurrentKeyRead(t)
       \/ loadCurrentKeyIndex(t)
       \/ loadCurrentKeyLoad(t)
       \/ loadCurrentKeySet(t)
       \/ rotateWatchUnlock(t)

SpecDamaged == InitDamaged /\ [][NextDamaged]_vars

\* C37: the sweep's step on one file, reencryptFile, leaves the file on
\* disk when it cannot read or cannot decrypt it: no step of reencryptFile
\* removes the file it is working on.
C37_SweepLeavesDamaged ==
  [][\A t \in SweepThreads : \A p \in DOMAIN files :
       (ReadsFile(t) /\ th[t].path = p /\ th'[t] # th[t])
         => p \in DOMAIN files']_vars


\* The step is one of the client's Load call.
LoadStep ==
  /\ th'["A1"] # th["A1"] \/ res'["A1"] # res["A1"]
  /\ \/ th["A1"].op = "Load"
     \/ th'["A1"].op = "Load"
     \/ th["A1"].pc = "idle" /\ th'["A1"].pc = "idle" /\ res'["A1"].op = "Load"

\* C38: a Load of a path that holds no file, a file shorter than index
\* byte and nonce, a frame whose first byte names a key that cannot be
\* loaded, or a frame that fails authentication returns an error and no
\* plaintext; and no step of a Load changes a data file or the key
\* directory.
C38_LoadFailsClean ==
  /\ [](res["A1"].op = "Load" /\ res["A1"].path = "p1"
          => (res["A1"].st # "ok" /\ res["A1"].val = <<>>))
  /\ [][LoadStep => (files' = files /\ dirs' = dirs)]_vars

\* A Load of the tampered frame, still on disk, has returned an error.
C38_Witness ==
  /\ res["A1"].op = "Load" /\ res["A1"].path = "p1" /\ res["A1"].st = "err"
  /\ "p1" \in DOMAIN files
  /\ files["p1"].c.len >= 1 + NonceSize + TagSize
  /\ files["p1"].c.idx = mem["A"].idx


\* C39: Save and Load with the empty path, and Save with a path that
\* resolves to an existing directory, return an error and leave every file
\* and directory as it was.
C39_RejectsEmptyAndDir ==
  /\ (call.op \in {"Save", "Load"} /\ call.arg = <<>>)
       => (call.st = "rejected" /\ call.tree = call.before)
  /\ (call.op = "Save" /\ call.full \in call.before.dirs)
       => (call.st \in {"rejected", "err"} /\ call.tree = call.before)

\* A Save whose path resolves to a directory inside the store has returned
\* its error.
C39_Witness ==
  /\ call.op = "Save" /\ call.st = "err"
  /\ Inside(call.full) /\ call.full \in call.before.dirs


\* The store is in steady state for the handle of process P: currentkey
\* holds one byte, its key file is the only key file, the handle holds that
\* index, and every data file carries it.
SteadyFor(P) ==
  LET kd == dirs["keys"] IN
  /\ kd.exists /\ kd.cur.exists /\ Len(kd.cur.bytes) = 1
  /\ DOMAIN kd.keys = {kd.cur.bytes[1]}
  /\ mem[P].dir /\ mem[P].idx = kd.cur.bytes[1]
  /\ \A p \in DOMAIN files : files[p].c.len >= 1 /\ files[p].c.idx = kd.cur.bytes[1]

\* What the handle of process P reads from the data file f.
PlainOf(P, f) == decryptData(mem[P], dirs["keys"], f.c)

\* C40: a step of the sweep leaves as it is every data file whose first byte
\* is the handle's current index; the file it writes is a frame that the
\* handle decrypts, under the index it carries, to the plaintext the file
\* held before; and on a store in steady state a step of the sweep changes
\* no data file and no key file.
C40_SweepIdempotent ==
  [][\A t \in SweepThreads :
       (th[t].op = "Sweep" /\ th'[t] # th[t]) =>
         /\ \A p \in DOMAIN files :
              (files[p].c.len >= 1 /\ files[p].c.idx = mem[ProcOf(t)].idx)
                => (p \in DOMAIN files' /\ files'[p] = files[p])
         /\ \A p \in DOMAIN files :
              (p \in DOMAIN files' /\ files'[p] # files[p])
                => /\ PlainOf(ProcOf(t), files[p]).st = "ok"
                   /\ decryptData(mem'[ProcOf(t)], dirs'["keys"], files'[p].c)
                        = PlainOf(ProcOf(t), files[p])
         /\ SteadyFor(ProcOf(t))
              => (files' = files /\ dirs'["keys"].keys = dirs["keys"].keys)]_vars

====
